---- MODULE Spec2Model ----
(***************************************************************************)
(* Token derivation and webhook verification of the Vortex Rust SDK        *)
(* (src/src/client.rs, src/src/webhooks.rs, src/src/webhook_types.rs).     *)
(*                                                                         *)
(* Text is a sequence of one-character strings, a byte buffer a sequence   *)
(* of numbers 0..255; as_bytes() and from_utf8 are the ASCII table.        *)
(* HMAC-SHA256 (crates hmac, sha2) is a 32-byte keyed digest that is       *)
(* checked to be collision-free on the webhook inputs of the model.        *)
(***************************************************************************)
EXTENDS Integers, Sequences, FiniteSets, TLC

(* ------------------------------ bounds --------------------------------- *)
\* the clock is read at Epoch + 0..MaxTick
MaxTick == 1
\* identifier segments made of n letters "A", n = 0 or MaxIdChars - 4 .. MaxIdChars
MaxIdChars == 24

(* ------------------------- text and bytes ------------------------------ *)
\* printable ASCII, code 32 first (code 96 is spelled out: it cannot be written
\* in a string here)
Ascii ==
  << " ", "!", "\"", "#", "$", "%", "&", "'", "(", ")", "*", "+", ",", "-", ".", "/",
     "0", "1", "2", "3", "4", "5", "6", "7", "8", "9", ":", ";", "<", "=", ">", "?",
     "@", "A", "B", "C", "D", "E", "F", "G", "H", "I", "J", "K", "L", "M", "N", "O",
     "P", "Q", "R", "S", "T", "U", "V", "W", "X", "Y", "Z", "[", "\\", "]", "^", "_",
     "(grave)", "a", "b", "c", "d", "e", "f", "g", "h", "i", "j", "k", "l", "m", "n", "o",
     "p", "q", "r", "s", "t", "u", "v", "w", "x", "y", "z", "{", "|", "}", "~" >>

Chars == {Ascii[i] : i \in 1..Len(Ascii)}

\* a function, with its values computed once
Table(f) == f @@ f

\* the code of each character
OrdTable == Table([c \in Chars |-> 31 + CHOOSE i \in 1..Len(Ascii) : Ascii[i] = c])

Ord(c) == OrdTable[c]

Chr(b) == Ascii[b - 31]

\* a sequence given as a function on 1..n, as the sequence of its values
Seq1(f) == f \o <<>>

\* str::as_bytes
AsBytes(text) == Seq1([i \in 1..Len(text) |-> Ord(text[i])])

\* String::from_utf8 on ASCII bytes
FromBytes(bytes) == Seq1([i \in 1..Len(bytes) |-> Chr(bytes[i])])

RECURSIVE Concat(_)
\* format!/join of a sequence of texts
Concat(parts) ==
  IF parts = <<>> THEN <<>> ELSE Head(parts) \o Concat(Tail(parts))

Dot == "."

\* indices of the separators, and the k-th of them (0 before the text, Len + 1
\* after it)
DotsOf(text) == {i \in 1..Len(text) : text[i] = Dot}

NthDot(text, k) ==
  IF k = 0 THEN 0
  ELSE IF k > Cardinality(DotsOf(text)) THEN Len(text) + 1
  ELSE CHOOSE i \in DotsOf(text) : Cardinality({j \in DotsOf(text) : j < i}) = k - 1

\* str::split('.').collect(): n separators give n + 1 parts, empty parts kept
Split(text) ==
  Seq1([k \in 1..(Cardinality(DotsOf(text)) + 1) |->
          SubSeq(text, NthDot(text, k - 1) + 1, NthDot(text, k) - 1)])

RECURSIVE TextLess(_, _)
\* Ord for String: byte-wise lexicographic
TextLess(a, b) ==
  IF b = <<>> THEN FALSE
  ELSE IF a = <<>> THEN TRUE
  ELSE IF Ord(Head(a)) # Ord(Head(b)) THEN Ord(Head(a)) < Ord(Head(b))
  ELSE TextLess(Tail(a), Tail(b))

RECURSIVE Digits(_)
Digits(n) ==
  IF n < 10 THEN <<Chr(48 + n)>> ELSE Append(Digits(n \div 10), Chr(48 + (n % 10)))

(* ----------------------------- hex, uuid -------------------------------- *)
HexLower == <<"0", "1", "2", "3", "4", "5", "6", "7", "8", "9", "a", "b", "c", "d", "e", "f">>

\* format!("{:02x}", b)
HexByte(b) == <<HexLower[(b \div 16) + 1], HexLower[(b % 16) + 1]>>

\* bytes.iter().map(|b| format!("{:02x}", b)).collect()
hex_encode(bytes) ==
  Seq1([i \in 1..(2 * Len(bytes)) |-> HexByte(bytes[(i + 1) \div 2])[2 - (i % 2)]])

\* length of the binary identifier
UuidLen == 16

\* Uuid::from_slice: any 16 bytes
UuidFromSliceOk(bytes) == Len(bytes) = UuidLen

\* Uuid::to_string: hyphenated lowercase 8-4-4-4-12
UuidToString(bytes) ==
  hex_encode(SubSeq(bytes, 1, 4)) \o <<"-">> \o hex_encode(SubSeq(bytes, 5, 6)) \o <<"-">>
    \o hex_encode(SubSeq(bytes, 7, 8)) \o <<"-">> \o hex_encode(SubSeq(bytes, 9, 10))
    \o <<"-">> \o hex_encode(SubSeq(bytes, 11, 16))

(* ------------------------------ base64url ------------------------------- *)
B64Alphabet ==
  << "A", "B", "C", "D", "E", "F", "G", "H", "I", "J", "K", "L", "M", "N", "O", "P",
     "Q", "R", "S", "T", "U", "V", "W", "X", "Y", "Z", "a", "b", "c", "d", "e", "f",
     "g", "h", "i", "j", "k", "l", "m", "n", "o", "p", "q", "r", "s", "t", "u", "v",
     "w", "x", "y", "z", "0", "1", "2", "3", "4", "5", "6", "7", "8", "9", "-", "_" >>

B64Chars == {B64Alphabet[i] : i \in 1..64}

B64Index == Table([c \in B64Chars |-> (CHOOSE i \in 1..64 : B64Alphabet[i] = c) - 1])

B64Sym(v) == B64Alphabet[v + 1]

\* the byte at index i, 0 past the end
ByteAt(bytes, i) == IF i <= Len(bytes) THEN bytes[i] ELSE 0

\* the k-th (0..3) symbol of the group of three bytes that starts at index i
B64Group(bytes, i, k) ==
  CASE k = 0 -> ByteAt(bytes, i) \div 4
    [] k = 1 -> (ByteAt(bytes, i) % 4) * 16 + (ByteAt(bytes, i + 1) \div 16)
    [] k = 2 -> (ByteAt(bytes, i + 1) % 16) * 4 + (ByteAt(bytes, i + 2) \div 64)
    [] k = 3 -> ByteAt(bytes, i + 2) % 64

\* symbols of n bytes without padding
B64EncodedLen(n) == 4 * (n \div 3) + (IF n % 3 = 0 THEN 0 ELSE (n % 3) + 1)

\* URL_SAFE_NO_PAD.encode
B64UrlEncode(bytes) ==
  Seq1([j \in 1..B64EncodedLen(Len(bytes)) |->
          B64Sym(B64Group(bytes, 3 * ((j - 1) \div 4) + 1, (j - 1) % 4))])

\* URL_SAFE_NO_PAD.decode succeeds: alphabet only (no '='), length not 1 mod 4,
\* no stray bits in the last symbol
B64UrlDecodeOk(text) ==
  /\ \A i \in 1..Len(text) : text[i] \in B64Chars
  /\ Len(text) % 4 # 1
  /\ Len(text) % 4 = 2 => B64Index[text[Len(text)]] % 16 = 0
  /\ Len(text) % 4 = 3 => B64Index[text[Len(text)]] % 4 = 0

\* bytes of n symbols
B64DecodedLen(n) == 3 * (n \div 4) + (IF n % 4 = 0 THEN 0 ELSE (n % 4) - 1)

\* the value of the symbol at index i, 0 past the end
SymAt(text, i) == IF i <= Len(text) THEN B64Index[text[i]] ELSE 0

\* the k-th (0..2) byte of the group of four symbols that starts at index i
B64Ungroup(text, i, k) ==
  CASE k = 0 -> SymAt(text, i) * 4 + (SymAt(text, i + 1) \div 16)
    [] k = 1 -> (SymAt(text, i + 1) % 16) * 16 + (SymAt(text, i + 2) \div 4)
    [] k = 2 -> (SymAt(text, i + 2) % 4) * 64 + SymAt(text, i + 3)

\* URL_SAFE_NO_PAD.decode of a text that decodes
B64UrlDecode(text) ==
  Seq1([j \in 1..B64DecodedLen(Len(text)) |->
          B64Ungroup(text, 4 * ((j - 1) \div 3) + 1, (j - 1) % 3)])

(* ------------------------------ HMAC-SHA256 ----------------------------- *)
\* output size of SHA-256 in bytes
DigestLen == 32

RECURSIVE PowMod(_, _, _)
PowMod(b, e, p) ==
  IF e = 0 THEN 1
  ELSE IF e % 2 = 0 THEN LET h == PowMod(b, e \div 2, p) IN (h * h) % p
  ELSE (b * PowMod(b, e - 1, p)) % p

RECURSIVE PolyHash(_, _, _, _)
\* the residue mod p of the buffer's slice lo..hi read as a number in base 263
PolyHash(bytes, lo, hi, p) ==
  IF lo > hi THEN 0
  ELSE IF lo = hi THEN (bytes[lo] + 1) % p
  ELSE LET mid == (lo + hi) \div 2 IN
    (PolyHash(bytes, lo, mid, p) * PowMod(263, hi - mid, p) + PolyHash(bytes, mid + 1, hi, p)) % p

\* mutant: the empty key is refused
HmacNewFromSliceOk_NonEmpty(key) == key # <<>>

\* Hmac::<Sha256>::new_from_slice accepts a key of every length
HmacNewFromSliceOk(key) == TRUE

\* new_from_slice(key), update(msg), finalize().into_bytes(): a keyed digest of
\* DigestLen bytes. The real function is replaced by three residues of key,
\* separator, message; DigestsDistinct checks that no two webhook signatures of
\* the model are equal.
HmacSha256(key, msg) ==
  LET input == key \o <<256>> \o msg
      a == PolyHash(input, 1, Len(input), 46337)
      b == PolyHash(input, 1, Len(input), 46327)
      c == PolyHash(input, 1, Len(input), 46309)
  IN Seq1([i \in 1..DigestLen |->
             CASE i % 6 = 1 -> a % 256
               [] i % 6 = 2 -> (a \div 256) % 256
               [] i % 6 = 3 -> b % 256
               [] i % 6 = 4 -> (b \div 256) % 256
               [] i % 6 = 5 -> c % 256
               [] OTHER -> ((c \div 256) + i) % 256])

(* -------------------------------- JSON ---------------------------------- *)
\* serde_json::Value, one record shape for every kind: t the kind, n the number
\* (or 0/1 of a bool), s the string, xs the elements, ks/xs the keys and values
\* of an object. serde_json::Map is a BTreeMap: keys unique, in String order.
JNull == [t |-> "null", n |-> 0, s |-> <<>>, ks |-> <<>>, xs |-> <<>>]

JBool(b) == [t |-> "bool", n |-> IF b THEN 1 ELSE 0, s |-> <<>>, ks |-> <<>>, xs |-> <<>>]

JNum(n) == [t |-> "num", n |-> n, s |-> <<>>, ks |-> <<>>, xs |-> <<>>]

JStr(s) == [t |-> "str", n |-> 0, s |-> s, ks |-> <<>>, xs |-> <<>>]

JArr(xs) == [t |-> "arr", n |-> 0, s |-> <<>>, ks |-> <<>>, xs |-> xs]

JObj(ks, xs) == [t |-> "obj", n |-> 0, s |-> <<>>, ks |-> ks, xs |-> xs]

\* json!(vec of strings)
JStrArr(texts) == JArr(Seq1([i \in 1..Len(texts) |-> JStr(texts[i])]))

IndexOf(ks, k) == IF \E i \in 1..Len(ks) : ks[i] = k THEN CHOOSE i \in 1..Len(ks) : ks[i] = k ELSE 0

HasKey(obj, k) == IndexOf(obj.ks, k) # 0

Get(obj, k) == obj.xs[IndexOf(obj.ks, k)]

\* number of keys of the map that sort before k
Rank(keys, key) == Cardinality({r \in 1..Len(keys) : TextLess(keys[r], key)})

InsertAt(seq, at, x) == SubSeq(seq, 1, at - 1) \o <<x>> \o SubSeq(seq, at, Len(seq))

\* mutant: an assignment to a key already there takes the key out
MapInsert_RemoveExisting(obj, k, v) ==
  IF HasKey(obj, k)
  THEN JObj(SelectSeq(obj.ks, LAMBDA x : x # k),
            [i \in 1..(Len(obj.ks) - 1) |->
               IF i < IndexOf(obj.ks, k) THEN obj.xs[i] ELSE obj.xs[i + 1]])
  ELSE JObj(InsertAt(obj.ks, Rank(obj.ks, k) + 1, k), InsertAt(obj.xs, Rank(obj.ks, k) + 1, v))

\* mutant: a new key goes to the end of the map (insertion order)
MapInsert_Append(obj, k, v) ==
  IF HasKey(obj, k)
  THEN JObj(obj.ks, [obj.xs EXCEPT ![IndexOf(obj.ks, k)] = v])
  ELSE JObj(Append(obj.ks, k), Append(obj.xs, v))

\* value[key] = v on an object (IndexMut<String>): replace the entry of an
\* existing key, else insert at the key's place in the order
MapInsert(obj, k, v) ==
  IF HasKey(obj, k)
  THEN JObj(obj.ks, [obj.xs EXCEPT ![IndexOf(obj.ks, k)] = v])
  ELSE JObj(InsertAt(obj.ks, Rank(obj.ks, k) + 1, k), InsertAt(obj.xs, Rank(obj.ks, k) + 1, v))

RECURSIVE MapFromPairs(_, _, _)
\* insert the pairs ks[i], xs[i] in sequence order
MapFromPairs(ks, xs, obj) ==
  IF ks = <<>> THEN obj
  ELSE MapFromPairs(Tail(ks), Tail(xs), MapInsert(obj, Head(ks), Head(xs)))

\* json!({ k: v, ... })
JsonObject(ks, xs) == MapFromPairs(ks, xs, JObj(<<>>, <<>>))

Quote == "\""

Backslash == "\\"

\* mutant: nothing is escaped
Escape_None(s) == s

RECURSIVE Escape(_)
\* serde_json string escaping of the printable ASCII range, by halves
Escape(s) ==
  IF s = <<>> THEN <<>>
  ELSE IF Len(s) = 1 THEN (IF s[1] \in {Quote, Backslash} THEN <<Backslash, s[1]>> ELSE s)
  ELSE Escape(SubSeq(s, 1, Len(s) \div 2)) \o Escape(SubSeq(s, (Len(s) \div 2) + 1, Len(s)))

Quoted(s) == <<Quote>> \o Escape(s) \o <<Quote>>

RECURSIVE ToJson(_)
RECURSIVE ElementsToJson(_)
RECURSIVE MembersToJson(_, _)
ElementsToJson(xs) ==
  IF xs = <<>> THEN <<>>
  ELSE ToJson(Head(xs)) \o (IF Len(xs) > 1 THEN <<",">> ELSE <<>>) \o ElementsToJson(Tail(xs))

MembersToJson(ks, xs) ==
  IF ks = <<>> THEN <<>>
  ELSE Quoted(Head(ks)) \o <<":">> \o ToJson(Head(xs))
         \o (IF Len(ks) > 1 THEN <<",">> ELSE <<>>) \o MembersToJson(Tail(ks), Tail(xs))

\* serde_json::to_vec, as text: compact, map entries in key order
ToJson(v) ==
  CASE v.t = "null" -> <<"n", "u", "l", "l">>
    [] v.t = "bool" -> IF v.n = 1 THEN <<"t", "r", "u", "e">> ELSE <<"f", "a", "l", "s", "e">>
    [] v.t = "num" -> Digits(v.n)
    [] v.t = "str" -> Quoted(v.s)
    [] v.t = "arr" -> <<"[">> \o ElementsToJson(v.xs) \o <<"]">>
    [] v.t = "obj" -> <<"{">> \o MembersToJson(v.ks, v.xs) \o <<"}">>

\* serde_json::to_vec
ToVec(v) == AsBytes(ToJson(v))

(* ------------------------------ JSON parsing ---------------------------- *)
\* Result of a parse step: the value read and the index after it. An object is
\* read with its members in document order, duplicates kept (serde's buffered
\* Content); JSON texts of the model hold no floats, signs or \u escapes.
ParseFail == [ok |-> FALSE, v |-> JNull, i |-> 0]

ParseOk(v, i) == [ok |-> TRUE, v |-> v, i |-> i]

DigitChars == {"0", "1", "2", "3", "4", "5", "6", "7", "8", "9"}

RECURSIVE SkipWs(_, _)
SkipWs(text, i) == IF i <= Len(text) /\ text[i] = " " THEN SkipWs(text, i + 1) ELSE i

StartsWith(text, i, word) ==
  /\ i + Len(word) - 1 <= Len(text)
  /\ SubSeq(text, i, i + Len(word) - 1) = word

\* length of the run of backslashes that ends at index j (0 if none ends there),
\* counted from index i on
RunBefore(text, i, j) ==
  IF j < i \/ text[j] # Backslash THEN 0
  ELSE j - (CHOOSE k \in (i - 1)..j : (k = i - 1 \/ text[k] # Backslash)
                                       /\ \A q \in (k + 1)..j : text[q] = Backslash)

\* the backslash at index j starts an escape: it ends a run of odd length
Escaping(text, i, j) == RunBefore(text, i, j) % 2 = 1

\* the quote that closes the string opened before index i, 0 if there is none
ClosingQuote(text, i) ==
  LET ends == {j \in i..Len(text) : text[j] = Quote /\ ~Escaping(text, i, j - 1)}
  IN IF ends = {} THEN 0 ELSE CHOOSE j \in ends : \A q \in ends : j <= q

\* i is the index after the opening quote; the third argument is the text read
\* so far
ParseString(text, i, acc) ==
  LET close == ClosingQuote(text, i)
      kept == {j \in i..(close - 1) : ~Escaping(text, i, j)}
      nth(m) == CHOOSE j \in kept : Cardinality({q \in kept : q < j}) = m - 1
  IN IF close = 0 THEN ParseFail
     ELSE IF \E j \in i..(close - 1) : Escaping(text, i, j) /\ text[j + 1] \notin {Quote, Backslash, "/"}
     THEN ParseFail
     ELSE ParseOk(JStr(acc \o [m \in 1..Cardinality(kept) |-> text[nth(m)]]), close + 1)

RECURSIVE ParseDigits(_, _, _)
ParseDigits(text, i, n) ==
  IF i <= Len(text) /\ text[i] \in DigitChars
  THEN ParseDigits(text, i + 1, n * 10 + (Ord(text[i]) - 48))
  ELSE ParseOk(JNum(n), i)

\* a leading zero is a number of its own: "01" is no number
ParseNumber(text, i) ==
  IF text[i] = "0"
  THEN IF i + 1 <= Len(text) /\ text[i + 1] \in DigitChars THEN ParseFail ELSE ParseOk(JNum(0), i + 1)
  ELSE ParseDigits(text, i, 0)

RECURSIVE ParseValue(_, _)
RECURSIVE ParseElements(_, _, _)
RECURSIVE ParseMembers(_, _, _, _)
\* i is the index of the next element; at least one element follows
ParseElements(text, i, xs) ==
  LET r == ParseValue(text, i)
      j == SkipWs(text, r.i)
  IN IF ~r.ok \/ j > Len(text) THEN ParseFail
     ELSE IF text[j] = "," THEN ParseElements(text, j + 1, Append(xs, r.v))
     ELSE IF text[j] = "]" THEN ParseOk(JArr(Append(xs, r.v)), j + 1)
     ELSE ParseFail

\* i is the index where the next key is expected; at least one member follows
ParseMembers(text, i, ks, xs) ==
  LET j == SkipWs(text, i)
      k == IF j <= Len(text) /\ text[j] = Quote THEN ParseString(text, j + 1, <<>>) ELSE ParseFail
      c == SkipWs(text, k.i)
      r == IF k.ok /\ c <= Len(text) /\ text[c] = ":" THEN ParseValue(text, c + 1) ELSE ParseFail
      e == SkipWs(text, r.i)
  IN IF ~r.ok \/ e > Len(text) THEN ParseFail
     ELSE IF text[e] = "," THEN ParseMembers(text, e + 1, Append(ks, k.v.s), Append(xs, r.v))
     ELSE IF text[e] = "}" THEN ParseOk(JObj(Append(ks, k.v.s), Append(xs, r.v)), e + 1)
     ELSE ParseFail

ParseValue(text, i) ==
  LET j == SkipWs(text, i) IN
  IF j > Len(text) THEN ParseFail
  ELSE IF text[j] = "{" THEN
    (IF SkipWs(text, j + 1) <= Len(text) /\ text[SkipWs(text, j + 1)] = "}"
     THEN ParseOk(JObj(<<>>, <<>>), SkipWs(text, j + 1) + 1)
     ELSE ParseMembers(text, j + 1, <<>>, <<>>))
  ELSE IF text[j] = "[" THEN
    (IF SkipWs(text, j + 1) <= Len(text) /\ text[SkipWs(text, j + 1)] = "]"
     THEN ParseOk(JArr(<<>>), SkipWs(text, j + 1) + 1)
     ELSE ParseElements(text, j + 1, <<>>))
  ELSE IF text[j] = Quote THEN ParseString(text, j + 1, <<>>)
  ELSE IF text[j] \in DigitChars THEN ParseNumber(text, j)
  ELSE IF StartsWith(text, j, <<"t", "r", "u", "e">>) THEN ParseOk(JBool(TRUE), j + 4)
  ELSE IF StartsWith(text, j, <<"f", "a", "l", "s", "e">>) THEN ParseOk(JBool(FALSE), j + 5)
  ELSE IF StartsWith(text, j, <<"n", "u", "l", "l">>) THEN ParseOk(JNull, j + 4)
  ELSE ParseFail

\* one JSON value and nothing but white space after it
ParseJson(text) ==
  LET r == ParseValue(text, 1) IN
  IF r.ok /\ SkipWs(text, r.i) > Len(text) THEN r ELSE ParseFail

RECURSIVE ToValue(_)
\* the parsed content as a serde_json::Value: object members go into the map in
\* document order, so the last of two equal keys stays
ToValue(c) ==
  CASE c.t = "arr" -> JArr(Seq1([i \in 1..Len(c.xs) |-> ToValue(c.xs[i])]))
    [] c.t = "obj" -> JsonObject(c.ks, Seq1([i \in 1..Len(c.xs) |-> ToValue(c.xs[i])]))
    [] OTHER -> c

(* ------------------------------ generate_jwt ---------------------------- *)
None == [some |-> FALSE, v |-> <<>>]

Some(x) == [some |-> TRUE, v |-> x]

Ok(token) == [kind |-> "Ok", token |-> token]

Err(kind) == [kind |-> kind, token |-> <<>>]

VRTX == <<"V", "R", "T", "X">>

K_iat == <<"i", "a", "t">>
K_alg == <<"a", "l", "g">>
K_typ == <<"t", "y", "p">>
K_kid == <<"k", "i", "d">>
K_userId == <<"u", "s", "e", "r", "I", "d">>
K_userEmail == <<"u", "s", "e", "r", "E", "m", "a", "i", "l">>
K_expires == <<"e", "x", "p", "i", "r", "e", "s">>
K_userName == <<"u", "s", "e", "r", "N", "a", "m", "e">>
K_userAvatarUrl == <<"u", "s", "e", "r", "A", "v", "a", "t", "a", "r", "U", "r", "l">>
K_adminScopes == <<"a", "d", "m", "i", "n", "S", "c", "o", "p", "e", "s">>
K_allowedEmailDomains == <<"a", "l", "l", "o", "w", "e", "d", "E", "m", "a", "i", "l", "D", "o", "m", "a", "i", "n", "s">>

\* lifetime of a token in seconds
TokenLifetime == 3600

\* mutant: the key id carries the secret
ParseApiKey_KidWithSecret(key) ==
  LET parts == Split(key) IN
  IF Len(parts) # 3 THEN [ok |-> FALSE, uuid_str |-> <<>>, key |-> <<>>]
  ELSE IF parts[1] # VRTX THEN [ok |-> FALSE, uuid_str |-> <<>>, key |-> <<>>]
  ELSE IF ~B64UrlDecodeOk(parts[2]) THEN [ok |-> FALSE, uuid_str |-> <<>>, key |-> <<>>]
  ELSE IF Len(B64UrlDecode(parts[2])) # UuidLen THEN [ok |-> FALSE, uuid_str |-> <<>>, key |-> <<>>]
  ELSE [ok |-> TRUE, uuid_str |-> UuidToString(B64UrlDecode(parts[2])) \o parts[3], key |-> parts[3]]

\* mutant: the prefix is not compared
ParseApiKey_AnyPrefix(key) ==
  LET parts == Split(key) IN
  IF Len(parts) # 3 THEN [ok |-> FALSE, uuid_str |-> <<>>, key |-> <<>>]
  ELSE IF ~B64UrlDecodeOk(parts[2]) THEN [ok |-> FALSE, uuid_str |-> <<>>, key |-> <<>>]
  ELSE IF Len(B64UrlDecode(parts[2])) # UuidLen THEN [ok |-> FALSE, uuid_str |-> <<>>, key |-> <<>>]
  ELSE [ok |-> TRUE, uuid_str |-> UuidToString(B64UrlDecode(parts[2])), key |-> parts[3]]

\* Parse API key: split, prefix, base64url identifier of 16 bytes, UUID text
ParseApiKey(key) ==
  LET parts == Split(key) IN
  IF Len(parts) # 3 THEN [ok |-> FALSE, uuid_str |-> <<>>, key |-> <<>>]
  ELSE IF parts[1] # VRTX THEN [ok |-> FALSE, uuid_str |-> <<>>, key |-> <<>>]
  ELSE IF ~B64UrlDecodeOk(parts[2]) THEN [ok |-> FALSE, uuid_str |-> <<>>, key |-> <<>>]
  ELSE IF Len(B64UrlDecode(parts[2])) # UuidLen THEN [ok |-> FALSE, uuid_str |-> <<>>, key |-> <<>>]
  ELSE IF ~UuidFromSliceOk(B64UrlDecode(parts[2])) THEN [ok |-> FALSE, uuid_str |-> <<>>, key |-> <<>>]
  ELSE [ok |-> TRUE, uuid_str |-> UuidToString(B64UrlDecode(parts[2])), key |-> parts[3]]

\* mutant: the secret segment itself is the signing key
DeriveSigningKey_RootSecret(key, uuid_str) == AsBytes(key)

\* Step 1: derive the signing key from the secret segment and the UUID text
DeriveSigningKey(key, uuid_str) == HmacSha256(AsBytes(key), AsBytes(uuid_str))

\* mutant: iat carries the second of expiry
BuildHeader_IatExpires(now, uuid_str) ==
  JsonObject(<<K_iat, K_alg, K_typ, K_kid>>,
             <<JNum(now + TokenLifetime), JStr(<<"H", "S", "2", "5", "6">>), JStr(<<"J", "W", "T">>), JStr(uuid_str)>>)

\* Step 2: the header
BuildHeader(now, uuid_str) ==
  JsonObject(<<K_iat, K_alg, K_typ, K_kid>>,
             <<JNum(now), JStr(<<"H", "S", "2", "5", "6">>), JStr(<<"J", "W", "T">>), JStr(uuid_str)>>)

\* mutant: the id and the email change places
BasePayload_Swapped(user, expires) ==
  JsonObject(<<K_userId, K_userEmail, K_expires>>, <<JStr(user.email), JStr(user.id), JNum(expires)>>)

\* the payload seeded with the user data
BasePayload(user, expires) ==
  JsonObject(<<K_userId, K_userEmail, K_expires>>, <<JStr(user.id), JStr(user.email), JNum(expires)>>)

\* mutant: an empty list of domains is written too
WithOptionalClaims_EmptyDomains(payload, user) ==
  LET p1 == IF user.user_name.some THEN MapInsert(payload, K_userName, JStr(user.user_name.v)) ELSE payload
      p2 == IF user.user_avatar_url.some
            THEN MapInsert(p1, K_userAvatarUrl, JStr(user.user_avatar_url.v)) ELSE p1
      p3 == IF user.admin_scopes.some
            THEN MapInsert(p2, K_adminScopes, JStrArr(user.admin_scopes.v)) ELSE p2
  IN IF user.allowed_email_domains.some
     THEN MapInsert(p3, K_allowedEmailDomains, JStrArr(user.allowed_email_domains.v)) ELSE p3

\* userName, userAvatarUrl, adminScopes if present; allowedEmailDomains if
\* present and not empty
WithOptionalClaims(payload, user) ==
  LET p1 == IF user.user_name.some THEN MapInsert(payload, K_userName, JStr(user.user_name.v)) ELSE payload
      p2 == IF user.user_avatar_url.some
            THEN MapInsert(p1, K_userAvatarUrl, JStr(user.user_avatar_url.v)) ELSE p1
      p3 == IF user.admin_scopes.some
            THEN MapInsert(p2, K_adminScopes, JStrArr(user.admin_scopes.v)) ELSE p2
  IN IF user.allowed_email_domains.some /\ user.allowed_email_domains.v # <<>>
     THEN MapInsert(p3, K_allowedEmailDomains, JStrArr(user.allowed_email_domains.v)) ELSE p3

RECURSIVE InsertInOrder(_, _, _)
InsertInOrder(payload, props, order) ==
  IF order = <<>> THEN payload
  ELSE InsertInOrder(MapInsert(payload, props.ks[Head(order)], props.xs[Head(order)]), props, Tail(order))

RECURSIVE InsertInOrder_KeepFirst(_, _, _)
InsertInOrder_KeepFirst(payload, props, order) ==
  IF order = <<>> THEN payload
  ELSE InsertInOrder_KeepFirst(IF HasKey(payload, props.ks[Head(order)]) THEN payload
                               ELSE MapInsert(payload, props.ks[Head(order)], props.xs[Head(order)]),
                               props, Tail(order))

\* mutant: an additional property does not replace a claim already there
WithExtra_KeepFirst(payload, extra, order) ==
  IF extra.some THEN InsertInOrder_KeepFirst(payload, extra.v, order) ELSE payload

\* the additional properties, inserted in the iteration order of the HashMap
WithExtra(payload, extra, order) ==
  IF extra.some THEN InsertInOrder(payload, extra.v, order) ELSE payload

\* Step 4: sign header_b64.payload_b64 with the derived key
Sign(signing_key, to_sign) == B64UrlEncode(HmacSha256(signing_key, AsBytes(to_sign)))

\* order is the iteration order of the extra map, now the clock's second
generate_jwt(key, user, extra, order, now) ==
  LET parsed == ParseApiKey(key)
      expires == now + TokenLifetime
      signing_key == DeriveSigningKey(parsed.key, parsed.uuid_str)
      header == BuildHeader(now, parsed.uuid_str)
      payload_json == WithExtra(WithOptionalClaims(BasePayload(user, expires), user), extra, order)
      header_b64 == B64UrlEncode(ToVec(header))
      payload_b64 == B64UrlEncode(ToVec(payload_json))
      to_sign == Concat(<<header_b64, <<Dot>>, payload_b64>>)
      sig_b64 == Sign(signing_key, to_sign)
  IN IF ~parsed.ok THEN Err("InvalidApiKey")
     ELSE IF ~HmacNewFromSliceOk(AsBytes(parsed.key)) THEN Err("CryptoError")
     ELSE IF ~HmacNewFromSliceOk(signing_key) THEN Err("CryptoError")
     ELSE Ok(Concat(<<header_b64, <<Dot>>, payload_b64, <<Dot>>, sig_b64>>))

(* -------------------------------- webhooks ------------------------------ *)
RECURSIVE Xor8(_, _, _)
\* x ^ y on the low `bits` bits
Xor8(x, y, bits) ==
  IF bits = 0 THEN 0
  ELSE (IF (x % 2) # (y % 2) THEN 1 ELSE 0) + 2 * Xor8(x \div 2, y \div 2, bits - 1)

RECURSIVE Or8(_, _, _)
\* x | y on the low `bits` bits
Or8(x, y, bits) ==
  IF bits = 0 THEN 0
  ELSE (IF (x % 2) = 1 \/ (y % 2) = 1 THEN 1 ELSE 0) + 2 * Or8(x \div 2, y \div 2, bits - 1)

RECURSIVE DiffLoop(_, _, _, _)
\* for (x, y) in a.iter().zip(b.iter()) { diff |= x ^ y } over the pairs lo..hi,
\* accumulated by halves (| is associative, 0 its unit)
DiffLoop(a, b, lo, hi) ==
  IF lo > hi THEN 0
  ELSE IF lo = hi THEN Xor8(a[lo], b[lo], 8)
  ELSE Or8(DiffLoop(a, b, lo, (lo + hi) \div 2), DiffLoop(a, b, ((lo + hi) \div 2) + 1, hi), 8)

Min(x, y) == IF x < y THEN x ELSE y

\* mutant: only the lengths are compared
constant_time_eq_LengthOnly(a, b) == Len(a) = Len(b)

\* mutant: the bytes are compared as letters, whatever their case
constant_time_eq_IgnoreCase(a, b) ==
  /\ Len(a) = Len(b)
  /\ \A i \in 1..Len(a) :
       (IF a[i] \in 65..90 THEN a[i] + 32 ELSE a[i]) = (IF b[i] \in 65..90 THEN b[i] + 32 ELSE b[i])

constant_time_eq(a, b) ==
  IF Len(a) # Len(b) THEN FALSE ELSE DiffLoop(a, b, 1, Min(Len(a), Len(b))) = 0

RECURSIVE FirstDifference(_, _, _)
\* the first index from i on where a and b differ, Len(a) + 1 if there is none
FirstDifference(a, b, i) ==
  IF i > Len(a) THEN i
  ELSE IF a[i] # b[i] THEN i
  ELSE FirstDifference(a, b, i + 1)

\* mutant: the loop is left at the first pair that differs
constant_time_eq_steps_EarlyExit(a, b) ==
  IF Len(a) # Len(b) THEN 0 ELSE Min(Len(a), FirstDifference(a, b, 1))

\* the number of times the body of the for loop of constant_time_eq runs: none
\* after the early return, else once for each pair of the zip (the loop has no
\* break)
constant_time_eq_steps(a, b) ==
  IF Len(a) # Len(b) THEN 0 ELSE Min(Len(a), Len(b))

\* the loop steps of the comparison within verify_signature
verify_signature_steps(self_secret, payload, signature) ==
  IF ~HmacNewFromSliceOk(AsBytes(self_secret)) THEN 0
  ELSE constant_time_eq_steps(AsBytes(hex_encode(HmacSha256(AsBytes(self_secret), payload))),
                              AsBytes(signature))

\* mutant: the digest is compared without the hex encoding
verify_signature_RawDigest(self_secret, payload, signature) ==
  IF ~HmacNewFromSliceOk(AsBytes(self_secret)) THEN FALSE
  ELSE constant_time_eq(HmacSha256(AsBytes(self_secret), payload), AsBytes(signature))

\* payload is the raw body, signature the header's text
verify_signature(self_secret, payload, signature) ==
  IF ~HmacNewFromSliceOk(AsBytes(self_secret)) THEN FALSE
  ELSE constant_time_eq(AsBytes(hex_encode(HmacSha256(AsBytes(self_secret), payload))), AsBytes(signature))

\* fields of VortexWebhookEvent in declaration order, with their serde names
WebhookFields ==
  << [name |-> <<"i", "d">>, kind |-> "string"],
     [name |-> <<"t", "y", "p", "e">>, kind |-> "string"],
     [name |-> <<"t", "i", "m", "e", "s", "t", "a", "m", "p">>, kind |-> "string"],
     [name |-> <<"a", "c", "c", "o", "u", "n", "t", "I", "d">>, kind |-> "string"],
     [name |-> <<"e", "n", "v", "i", "r", "o", "n", "m", "e", "n", "t", "I", "d">>, kind |-> "opt_string"],
     [name |-> <<"s", "o", "u", "r", "c", "e", "T", "a", "b", "l", "e">>, kind |-> "string"],
     [name |-> <<"o", "p", "e", "r", "a", "t", "i", "o", "n">>, kind |-> "string"],
     [name |-> <<"d", "a", "t", "a">>, kind |-> "map"] >>

\* fields of VortexAnalyticsEvent in declaration order, with their serde names
AnalyticsFields ==
  << [name |-> <<"i", "d">>, kind |-> "string"],
     [name |-> <<"n", "a", "m", "e">>, kind |-> "string"],
     [name |-> <<"a", "c", "c", "o", "u", "n", "t", "I", "d">>, kind |-> "string"],
     [name |-> <<"o", "r", "g", "a", "n", "i", "z", "a", "t", "i", "o", "n", "I", "d">>, kind |-> "string"],
     [name |-> <<"p", "r", "o", "j", "e", "c", "t", "I", "d">>, kind |-> "string"],
     [name |-> <<"e", "n", "v", "i", "r", "o", "n", "m", "e", "n", "t", "I", "d">>, kind |-> "string"],
     [name |-> <<"d", "e", "p", "l", "o", "y", "m", "e", "n", "t", "I", "d">>, kind |-> "opt_string"],
     [name |-> <<"w", "i", "d", "g", "e", "t", "C", "o", "n", "f", "i", "g", "u", "r", "a", "t", "i", "o", "n", "I", "d">>, kind |-> "opt_string"],
     [name |-> <<"f", "o", "r", "e", "i", "g", "n", "U", "s", "e", "r", "I", "d">>, kind |-> "opt_string"],
     [name |-> <<"s", "e", "s", "s", "i", "o", "n", "I", "d">>, kind |-> "opt_string"],
     [name |-> <<"p", "a", "y", "l", "o", "a", "d">>, kind |-> "opt_map"],
     [name |-> <<"p", "l", "a", "t", "f", "o", "r", "m">>, kind |-> "opt_string"],
     [name |-> <<"s", "e", "g", "m", "e", "n", "t", "a", "t", "i", "o", "n">>, kind |-> "opt_string"],
     [name |-> <<"t", "i", "m", "e", "s", "t", "a", "m", "p">>, kind |-> "string"] >>

\* a value deserializes as a field of this kind
FieldTypeOk(v, kind) ==
  CASE kind = "string" -> v.t = "str"
    [] kind = "opt_string" -> v.t \in {"str", "null"}
    [] kind = "map" -> v.t = "obj"
    [] kind = "opt_map" -> v.t \in {"obj", "null"}

Occurrences(ks, k) == {i \in 1..Len(ks) : ks[i] = k}

\* mutant: a map with a key that is no field of the struct is refused
MatchesStruct_DenyUnknown(content, fields) ==
  CASE content.t = "obj" ->
         /\ \A i \in 1..Len(content.ks) : \E f \in 1..Len(fields) : fields[f].name = content.ks[i]
         /\ \A f \in 1..Len(fields) :
              LET at == Occurrences(content.ks, fields[f].name) IN
                /\ Cardinality(at) <= 1
                /\ fields[f].kind \in {"string", "map"} => Cardinality(at) = 1
                /\ \A i \in at : FieldTypeOk(content.xs[i], fields[f].kind)
    [] content.t = "arr" ->
         /\ Len(content.xs) = Len(fields)
         /\ \A f \in 1..Len(fields) : FieldTypeOk(content.xs[f], fields[f].kind)
    [] OTHER -> FALSE

\* derived Deserialize of a struct from buffered content: from a map, every
\* field at most once, the required ones present, each of its type, other keys
\* ignored; from a sequence, exactly the fields in declaration order
MatchesStruct(content, fields) ==
  CASE content.t = "obj" ->
         \A f \in 1..Len(fields) :
           LET at == Occurrences(content.ks, fields[f].name) IN
             /\ Cardinality(at) <= 1
             /\ fields[f].kind \in {"string", "map"} => Cardinality(at) = 1
             /\ \A i \in at : FieldTypeOk(content.xs[i], fields[f].kind)
    [] content.t = "arr" ->
         /\ Len(content.xs) = Len(fields)
         /\ \A f \in 1..Len(fields) : FieldTypeOk(content.xs[f], fields[f].kind)
    [] OTHER -> FALSE

NoEvent == [kind |-> "None", variant |-> "None"]

\* mutant: the analytics variant is tried first
DeserializeEvent_AnalyticsFirst(content) ==
  IF MatchesStruct(content, AnalyticsFields) THEN [kind |-> "Ok", variant |-> "Analytics"]
  ELSE IF MatchesStruct(content, WebhookFields) THEN [kind |-> "Ok", variant |-> "Webhook"]
  ELSE [kind |-> "SerializationError", variant |-> "None"]

\* #[serde(untagged)] enum VortexEvent: the first variant that deserializes
DeserializeEvent(content) ==
  IF MatchesStruct(content, WebhookFields) THEN [kind |-> "Ok", variant |-> "Webhook"]
  ELSE IF MatchesStruct(content, AnalyticsFields) THEN [kind |-> "Ok", variant |-> "Analytics"]
  ELSE [kind |-> "SerializationError", variant |-> "None"]

\* payload bytes of the model are printable ASCII
PrintableBytes(bytes) == \A i \in 1..Len(bytes) : bytes[i] \in 32..126

\* serde_json::from_slice::<VortexEvent>(payload)
from_slice(payload) ==
  IF ~PrintableBytes(payload) THEN [kind |-> "SerializationError", variant |-> "None"]
  ELSE IF ~ParseJson(FromBytes(payload)).ok THEN [kind |-> "SerializationError", variant |-> "None"]
  ELSE DeserializeEvent(ParseJson(FromBytes(payload)).v)

is_webhook_event(event) == event.variant = "Webhook"

is_analytics_event(event) == event.variant = "Analytics"

(* ------------------------------- inputs --------------------------------- *)
Letters(c, n) == Seq1([i \in 1..n |-> c])

\* identifier segments: n letters "A" (22 of them are 16 zero bytes), the
\* identifier 01234567-89ab-cdef-0123-456789abcdef, the same with padding, one
\* with a symbol of the standard alphabet, one with stray bits in the last symbol
IdZero == Letters("A", 22)

IdOther == <<"A", "S", "N", "F", "Z", "4", "m", "r", "z", "e", "8", "B", "I", "0", "V", "n", "i", "a", "v", "N", "7", "w">>

IdSegments ==
  {Letters("A", n) : n \in {0} \cup ((MaxIdChars - 4)..MaxIdChars)}
    \cup {IdOther, IdOther \o <<"=", "=">>, Letters("A", 21) \o <<"+">>, Letters("A", 21) \o <<"B">>}

Key(prefix, id, sk) == Concat(<<prefix, <<Dot>>, id, <<Dot>>, sk>>)

SecretText == <<"s", "e", "c", "r", "e", "t">>

ApiKeys ==
  {Key(VRTX, id, SecretText) : id \in IdSegments}
    \cup {Key(prefix, IdZero, SecretText) : prefix \in {<<"v", "r", "t", "x">>, <<"V", "R", "T">>, <<>>}}
    \cup {Key(VRTX, IdZero, secret) : secret \in {<<>>, <<"s", ".", "k">>}}
    \cup {VRTX \o <<Dot>> \o IdZero, VRTX, <<>>}

NoUser ==
  [id |-> <<>>, email |-> <<>>, user_name |-> None, user_avatar_url |-> None,
   admin_scopes |-> None, allowed_email_domains |-> None]

SampleUser(n, a, sc, d) ==
  [id |-> <<"u", "s", "e", "r", "-", "1", "2", "3">>, email |-> <<"u", "@", "x", ".", "i", "o">>,
   user_name |-> n, user_avatar_url |-> a, admin_scopes |-> sc, allowed_email_domains |-> d]

Users ==
  {SampleUser(n, a, sc, d) :
     n \in {None, Some(<<"J", " ", "\"", "Q", "\"", " ", "D">>)},
     a \in {None, Some(<<"h", "t", "t", "p", "s", ":", "/", "/", "x", ".", "i", "o", "/", "j">>)},
     sc \in {None, Some(<<<<"a", "u", "t", "o", "j", "o", "i", "n">>>>)},
     d \in {None, Some(<<>>), Some(<<<<"x", ".", "i", "o">>>>)}}
    \cup {SampleUser(None, None, Some(<<>>), None)}

\* the extra maps, each given as its entries; a HashMap has no order of its own
Extras ==
  { None,
    Some(JObj(<<>>, <<>>)),
    Some(JObj(<<<<"r", "o", "l", "e">>>>, <<JStr(<<"a", "d", "m", "i", "n">>)>>)),
    Some(JObj(<<K_userId, K_expires>>, <<JStr(<<"e", "v", "i", "l">>), JNum(1)>>)),
    Some(JObj(<<K_userEmail, K_userName>>, <<JNull, JStr(<<"X">>)>>)),
    Some(JObj(<<K_allowedEmailDomains, K_adminScopes>>, <<JStrArr(<<<<"q", ".", "i", "o">>>>), JBool(TRUE)>>)) }

\* the iteration orders of a map of n entries
Orders(n) == {o \in [1..n -> 1..n] : \A i, j \in 1..n : o[i] = o[j] => i = j}

\* the clock's first second
Epoch == 1700000000

WhsecTest == <<"w", "h", "s", "e", "c", "_", "t", "e", "s", "t", "_", "s", "e", "c", "r", "e", "t">>

Secrets == {WhsecTest, <<"o", "t", "h", "e", "r">>}

SampleWebhook == AsBytes(<<"{", "\"", "i", "d", "\"", ":", "\"", "e", "1", "\"", ",", "\"", "t", "y", "p", "e", "\"", ":", "\"", "i", "n", "v", "i", "t", "a", "t", "i", "o", "n", ".", "a", "c", "c", "e", "p", "t", "e", "d", "\"", ",", "\"", "t", "i", "m", "e", "s", "t", "a", "m", "p", "\"", ":", "\"", "t", "\"", ",", "\"", "a", "c", "c", "o", "u", "n", "t", "I", "d", "\"", ":", "\"", "a", "\"", ",", "\"", "e", "n", "v", "i", "r", "o", "n", "m", "e", "n", "t", "I", "d", "\"", ":", "n", "u", "l", "l", ",", "\"", "s", "o", "u", "r", "c", "e", "T", "a", "b", "l", "e", "\"", ":", "\"", "s", "\"", ",", "\"", "o", "p", "e", "r", "a", "t", "i", "o", "n", "\"", ":", "\"", "u", "\"", ",", "\"", "d", "a", "t", "a", "\"", ":", "{", "\"", "k", "\"", ":", "\"", "v", "\"", "}", "}">>)

TamperedWebhook == AsBytes(<<"{", "\"", "i", "d", "\"", ":", "\"", "e", "2", "\"", ",", "\"", "t", "y", "p", "e", "\"", ":", "\"", "i", "n", "v", "i", "t", "a", "t", "i", "o", "n", ".", "a", "c", "c", "e", "p", "t", "e", "d", "\"", ",", "\"", "t", "i", "m", "e", "s", "t", "a", "m", "p", "\"", ":", "\"", "t", "\"", ",", "\"", "a", "c", "c", "o", "u", "n", "t", "I", "d", "\"", ":", "\"", "a", "\"", ",", "\"", "e", "n", "v", "i", "r", "o", "n", "m", "e", "n", "t", "I", "d", "\"", ":", "n", "u", "l", "l", ",", "\"", "s", "o", "u", "r", "c", "e", "T", "a", "b", "l", "e", "\"", ":", "\"", "s", "\"", ",", "\"", "o", "p", "e", "r", "a", "t", "i", "o", "n", "\"", ":", "\"", "u", "\"", ",", "\"", "d", "a", "t", "a", "\"", ":", "{", "\"", "k", "\"", ":", "\"", "v", "\"", "}", "}">>)

SampleAnalytics == AsBytes(<<"{", "\"", "i", "d", "\"", ":", "\"", "a", "1", "\"", ",", "\"", "n", "a", "m", "e", "\"", ":", "\"", "w", "i", "d", "g", "e", "t", "_", "l", "o", "a", "d", "e", "d", "\"", ",", "\"", "a", "c", "c", "o", "u", "n", "t", "I", "d", "\"", ":", "\"", "a", "\"", ",", "\"", "o", "r", "g", "a", "n", "i", "z", "a", "t", "i", "o", "n", "I", "d", "\"", ":", "\"", "o", "\"", ",", "\"", "p", "r", "o", "j", "e", "c", "t", "I", "d", "\"", ":", "\"", "p", "\"", ",", "\"", "e", "n", "v", "i", "r", "o", "n", "m", "e", "n", "t", "I", "d", "\"", ":", "\"", "e", "\"", ",", "\"", "p", "a", "y", "l", "o", "a", "d", "\"", ":", "n", "u", "l", "l", ",", "\"", "t", "i", "m", "e", "s", "t", "a", "m", "p", "\"", ":", "\"", "t", "\"", "}">>)

BothShapes == AsBytes(<<"{", "\"", "i", "d", "\"", ":", "\"", "b", "1", "\"", ",", "\"", "t", "y", "p", "e", "\"", ":", "\"", "x", "\"", ",", "\"", "n", "a", "m", "e", "\"", ":", "\"", "n", "\"", ",", "\"", "t", "i", "m", "e", "s", "t", "a", "m", "p", "\"", ":", "\"", "t", "\"", ",", "\"", "a", "c", "c", "o", "u", "n", "t", "I", "d", "\"", ":", "\"", "a", "\"", ",", "\"", "o", "r", "g", "a", "n", "i", "z", "a", "t", "i", "o", "n", "I", "d", "\"", ":", "\"", "o", "\"", ",", "\"", "p", "r", "o", "j", "e", "c", "t", "I", "d", "\"", ":", "\"", "p", "\"", ",", "\"", "e", "n", "v", "i", "r", "o", "n", "m", "e", "n", "t", "I", "d", "\"", ":", "\"", "e", "\"", ",", "\"", "s", "o", "u", "r", "c", "e", "T", "a", "b", "l", "e", "\"", ":", "\"", "s", "\"", ",", "\"", "o", "p", "e", "r", "a", "t", "i", "o", "n", "\"", ":", "\"", "u", "\"", ",", "\"", "d", "a", "t", "a", "\"", ":", "{", "}", "}">>)

NeitherShape == AsBytes(<<"{", "\"", "i", "d", "\"", ":", "\"", "e", "1", "\"", ",", "\"", "t", "y", "p", "e", "\"", ":", "7", "}">>)

NotJson == AsBytes(<<"{", "\"", "i", "d", "\"", ":">>)

\* the fields of a webhook event as a JSON array, in declaration order
SequenceWebhook == AsBytes(<<"[", "\"", "e", "1", "\"", ",", "\"", "i", "n", "v", "i", "t", "a", "t", "i", "o", "n", ".", "a", "c", "c", "e", "p", "t", "e", "d", "\"", ",", "\"", "t", "\"", ",", "\"", "a", "\"", ",", "n", "u", "l", "l", ",", "\"", "s", "\"", ",", "\"", "u", "\"", ",", "{", "\"", "k", "\"", ":", "\"", "v", "\"", "}", "]">>)

Payloads ==
  {SampleWebhook, TamperedWebhook, SampleAnalytics, BothShapes, SequenceWebhook,
   NeitherShape, NotJson, <<>>}

\* the test's sign(): lowercase hex of HMAC-SHA256
sign(test_secret, payload) == hex_encode(HmacSha256(AsBytes(test_secret), payload))

\* the sample's signature with another first character
FirstByteWrong ==
  [sign(WhsecTest, SampleWebhook) EXCEPT ![1] = IF @ = "0" THEN "1" ELSE "0"]

\* the sample's signature with another last character
LastByteWrong ==
  [sign(WhsecTest, SampleWebhook) EXCEPT ![2 * DigestLen] = IF @ = "0" THEN "1" ELSE "0"]

\* the hexadecimal text with its letters in upper case
UpperHex(text) ==
  Seq1([i \in 1..Len(text) |->
          IF Ord(text[i]) \in 97..122 THEN Chr(Ord(text[i]) - 32) ELSE text[i]])

\* the sample's signature in upper case, without its last character, and with
\* one character more
UpperSignature == UpperHex(sign(WhsecTest, SampleWebhook))

ShortSignature == SubSeq(sign(WhsecTest, SampleWebhook), 1, 2 * DigestLen - 1)

LongSignature == sign(WhsecTest, SampleWebhook) \o <<"0">>

Signatures ==
  {sign(k, p) : k \in Secrets, p \in Payloads}
    \cup {UpperSignature, ShortSignature, LongSignature}
    \cup {FirstByteWrong, LastByteWrong, <<"b", "a", "d", "_", "s", "i", "g">>, <<>>}

(* ------------------------ invitations over HTTP ------------------------- *)
\* VortexClient::new without VORTEX_API_BASE_URL in the environment
DefaultBaseUrl == <<"h", "t", "t", "p", "s", ":", "/", "/", "a", "p", "i", ".", "v", "o", "r", "t", "e", "x", "s", "o", "f", "t", "w", "a", "r", "e", ".", "c", "o", "m">>

\* a base URL given to with_base_url
CustomBaseUrl == <<"h", "t", "t", "p", ":", "/", "/", "l", "o", "c", "a", "l", "h", "o", "s", "t", ":", "3", "0", "0", "0">>

\* AcceptUser::new(): Self::default()
AcceptUserNew == [email |-> None, phone |-> None, name |-> None]

with_email(user, email) == [user EXCEPT !.email = Some(email)]

with_phone(user, phone) == [user EXCEPT !.phone = Some(phone)]

with_name(user, name) == [user EXCEPT !.name = Some(name)]

\* InvitationTarget::new(target_type, value)
InvitationTarget(target_type, value) == [target_type |-> target_type, value |-> value]

\* mutant: a target of another type than Email and Phone gives a user with
\* neither
TargetToUserInList_OtherEmpty(target) ==
  CASE target.target_type = "Email" -> with_email(AcceptUserNew, target.value)
    [] target.target_type = "Phone" -> with_phone(AcceptUserNew, target.value)
    [] OTHER -> AcceptUserNew

\* the conversion of a target of the list form
TargetToUserInList(target) ==
  CASE target.target_type = "Email" -> with_email(AcceptUserNew, target.value)
    [] target.target_type = "Phone" -> with_phone(AcceptUserNew, target.value)
    [] OTHER -> with_email(AcceptUserNew, target.value)

\* the conversion of the single target form
TargetToUser(target) ==
  CASE target.target_type = "Email" -> with_email(AcceptUserNew, target.value)
    [] target.target_type = "Phone" -> with_phone(AcceptUserNew, target.value)
    [] OTHER -> with_email(AcceptUserNew, target.value)

\* mutant: a user with a name passes too
UserValid_NameCounts(user) == user.email.some \/ user.phone.some \/ user.name.some

\* the negation of user.email.is_none() && user.phone.is_none()
UserValid(user) == ~(~user.email.some /\ ~user.phone.some)

MsgNoTargets == <<"N", "o", " ", "t", "a", "r", "g", "e", "t", "s", " ", "p", "r", "o", "v", "i", "d", "e", "d">>

MsgEmailOrPhone == <<"U", "s", "e", "r", " ", "m", "u", "s", "t", " ", "h", "a", "v", "e", " ", "e", "i", "t", "h", "e", "r", " ", "e", "m", "a", "i", "l", " ", "o", "r", " ", "p", "h", "o", "n", "e">>

MsgNoResults == <<"N", "o", " ", "r", "e", "s", "u", "l", "t", "s">>

MsgInvalidMethod == <<"I", "n", "v", "a", "l", "i", "d", " ", "H", "T", "T", "P", " ", "m", "e", "t", "h", "o", "d">>

\* the value of a result: none, the unit value, or an Invitation (its id)
NoValue == [t |-> "none", id |-> <<>>]

UnitValue == [t |-> "unit", id |-> <<>>]

InvitationValue(id) == [t |-> "Invitation", id |-> id]

HttpNone == [kind |-> "None", msg |-> <<>>, value |-> NoValue]

HttpOk(value) == [kind |-> "Ok", msg |-> <<>>, value |-> value]

HttpErr(kind, msg) == [kind |-> kind, msg |-> msg, value |-> NoValue]

K_invitationIds == <<"i", "n", "v", "i", "t", "a", "t", "i", "o", "n", "I", "d", "s">>
K_user == <<"u", "s", "e", "r">>
K_email == <<"e", "m", "a", "i", "l">>
K_phone == <<"p", "h", "o", "n", "e">>
K_name == <<"n", "a", "m", "e">>
K_id == <<"i", "d">>
K_invitationType == <<"i", "n", "v", "i", "t", "a", "t", "i", "o", "n", "T", "y", "p", "e">>
K_status == <<"s", "t", "a", "t", "u", "s">>
K_expired == <<"e", "x", "p", "i", "r", "e", "d">>

\* serde_json::to_value of an AcceptUser: a field that is None is skipped
AcceptUserJson(user) ==
  LET e == IF user.email.some THEN MapInsert(JObj(<<>>, <<>>), K_email, JStr(user.email.v))
           ELSE JObj(<<>>, <<>>)
      ph == IF user.phone.some THEN MapInsert(e, K_phone, JStr(user.phone.v)) ELSE e
  IN IF user.name.some THEN MapInsert(ph, K_name, JStr(user.name.v)) ELSE ph

\* json!({"invitationIds": invitation_ids, "user": user})
AcceptBody(invitation_ids, user) ==
  MapInsert(MapInsert(JObj(<<>>, <<>>), K_invitationIds, JStrArr(invitation_ids)),
            K_user, AcceptUserJson(user))

AcceptPath == <<"/", "a", "p", "i", "/", "v", "1", "/", "i", "n", "v", "i", "t", "a", "t", "i", "o", "n", "s", "/", "a", "c", "c", "e", "p", "t">>

\* format!("/api/v1/invitations/{}", invitation_id)
RevokePath(invitation_id) == <<"/", "a", "p", "i", "/", "v", "1", "/", "i", "n", "v", "i", "t", "a", "t", "i", "o", "n", "s", "/">> \o invitation_id

\* format!("/api/v1/invitations/by-group/{}/{}", group_type, group_id)
ByGroupPath(group_type, group_id) == <<"/", "a", "p", "i", "/", "v", "1", "/", "i", "n", "v", "i", "t", "a", "t", "i", "o", "n", "s", "/", "b", "y", "-", "g", "r", "o", "u", "p", "/">> \o group_type \o <<"/">> \o group_id

\* the request api_request sends: the url and the x-api-key header from the
\* client's fields
HttpRequest(url_base, key, method, path, body) ==
  [method |-> method, url |-> url_base \o path, x_api_key |-> key, body |-> body]

\* what comes back: whether send() succeeded, whether the status is a success,
\* the status line and the body text
HttpReply(sent, success, status, text) ==
  [sent |-> sent, success |-> success, status |-> status, text |-> text]

NoReply == HttpReply(FALSE, FALSE, <<>>, <<>>)

InvitationTypes == {<<"s", "i", "n", "g", "l", "e", "_", "u", "s", "e">>, <<"m", "u", "l", "t", "i", "_", "u", "s", "e">>, <<"a", "u", "t", "o", "j", "o", "i", "n">>}

InvitationStatuses ==
  {<<"q", "u", "e", "u", "e", "d">>, <<"s", "e", "n", "d", "i", "n", "g">>, <<"s", "e", "n", "t">>, <<"d", "e", "l", "i", "v", "e", "r", "e", "d">>, <<"a", "c", "c", "e", "p", "t", "e", "d">>, <<"s", "h", "a", "r", "e", "d">>,
   <<"u", "n", "f", "u", "r", "l", "e", "d">>, <<"a", "c", "c", "e", "p", "t", "e", "d", "_", "e", "l", "s", "e", "w", "h", "e", "r", "e">>}

\* derived Deserialize of Invitation from an object with the fields id,
\* invitationType, status, expired (the response bodies of the model hold no
\* other field of the struct): id has a default, the other three are required
InvitationFromContent(content) ==
  IF content.t # "obj" THEN HttpErr("SerializationError", <<>>)
  ELSE IF \E k \in {K_id, K_invitationType, K_status, K_expired} :
            Cardinality(Occurrences(content.ks, k)) > 1
  THEN HttpErr("SerializationError", <<>>)
  ELSE IF \E k \in {K_invitationType, K_status, K_expired} : ~HasKey(content, k)
  THEN HttpErr("SerializationError", <<>>)
  ELSE IF \/ HasKey(content, K_id) /\ Get(content, K_id).t # "str"
          \/ Get(content, K_invitationType).t # "str"
          \/ Get(content, K_invitationType).s \notin InvitationTypes
          \/ Get(content, K_status).t # "str"
          \/ Get(content, K_status).s \notin InvitationStatuses
          \/ Get(content, K_expired).t # "bool"
  THEN HttpErr("SerializationError", <<>>)
  ELSE HttpOk(InvitationValue(IF HasKey(content, K_id) THEN Get(content, K_id).s ELSE <<>>))

\* Deserialize for (): deserialize_unit accepts null and nothing else
UnitFromContent(content) ==
  IF content.t = "null" THEN HttpOk(UnitValue) ELSE HttpErr("SerializationError", <<>>)

\* serde_json::from_str::<T>(text).map_err(SerializationError), T the unit type
\* or Invitation
FromParsed(result_type, parsed) ==
  IF ~parsed.ok THEN HttpErr("SerializationError", <<>>)
  ELSE IF result_type = "unit" THEN UnitFromContent(parsed.v)
  ELSE InvitationFromContent(parsed.v)

from_str(result_type, text) == FromParsed(result_type, ParseJson(text))

EmptyObjectText == <<"{", "}">>

\* api_request after the request was built: send, status, body text, and the
\* empty body read as "{}"
api_request(method, result_type, reply) ==
  IF method \notin {"GET", "POST", "PUT", "DELETE"}
  THEN HttpErr("InvalidRequest", MsgInvalidMethod)
  ELSE IF ~reply.sent THEN HttpErr("HttpError", <<>>)
  ELSE IF ~reply.success
  THEN HttpErr("ApiError", Concat(<<<<"A", "P", "I", " ", "r", "e", "q", "u", "e", "s", "t", " ", "f", "a", "i", "l", "e", "d", ":", " ">>, reply.status, <<" ", "-", " ">>, reply.text>>))
  ELSE from_str(result_type, IF reply.text = <<>> THEN EmptyObjectText ELSE reply.text)

\* the longest legacy list of the model
MaxTargets == 2

EmailTarget == InvitationTarget("Email", <<"a", "@", "x", ".", "i", "o">>)

PhoneTarget == InvitationTarget("Phone", <<"+", "1", "5", "5", "5", "0", "1", "0", "0">>)

ShareTarget == InvitationTarget("Share", <<"l", "i", "n", "k", "-", "1">>)

InternalTarget == InvitationTarget("Internal", <<>>)

Targets == {EmailTarget, PhoneTarget, ShareTarget, InternalTarget}

\* the legacy lists: every list of at most MaxTargets targets, the empty one too
TargetLists == UNION {[1..n -> Targets] : n \in 0..MaxTargets}

AcceptUsers ==
  { AcceptUserNew,
    with_name(AcceptUserNew, <<"J", "u", "s", "t", " ", "a", " ", "N", "a", "m", "e">>),
    with_email(AcceptUserNew, <<"a", "@", "x", ".", "i", "o">>),
    with_phone(AcceptUserNew, <<"+", "1", "5", "5", "5", "0", "1", "0", "0">>),
    with_name(with_phone(with_email(AcceptUserNew, <<>>), <<"+", "1", "5", "5", "5", "0", "1", "0", "0">>), <<"J", "u", "s", "t", " ", "a", " ", "N", "a", "m", "e">>) }

InvitationId == <<"i", "n", "v", "-", "1">>

InvitationA == <<"{", "\"", "i", "d", "\"", ":", "\"", "i", "n", "v", "-", "a", "\"", ",", "\"", "i", "n", "v", "i", "t", "a", "t", "i", "o", "n", "T", "y", "p", "e", "\"", ":", "\"", "s", "i", "n", "g", "l", "e", "_", "u", "s", "e", "\"", ",", "\"", "s", "t", "a", "t", "u", "s", "\"", ":", "\"", "a", "c", "c", "e", "p", "t", "e", "d", "\"", ",", "\"", "e", "x", "p", "i", "r", "e", "d", "\"", ":", "f", "a", "l", "s", "e", "}">>

InvitationB == <<"{", "\"", "i", "n", "v", "i", "t", "a", "t", "i", "o", "n", "T", "y", "p", "e", "\"", ":", "\"", "m", "u", "l", "t", "i", "_", "u", "s", "e", "\"", ",", "\"", "s", "t", "a", "t", "u", "s", "\"", ":", "\"", "a", "c", "c", "e", "p", "t", "e", "d", "_", "e", "l", "s", "e", "w", "h", "e", "r", "e", "\"", ",", "\"", "e", "x", "p", "i", "r", "e", "d", "\"", ":", "t", "r", "u", "e", ",", "\"", "i", "d", "\"", ":", "\"", "i", "n", "v", "-", "b", "\"", "}">>

Status200 == <<"2", "0", "0", " ", "O", "K">>

Status204 == <<"2", "0", "4", " ", "N", "o", " ", "C", "o", "n", "t", "e", "n", "t">>

Status404 == <<"4", "0", "4", " ", "N", "o", "t", " ", "F", "o", "u", "n", "d">>

\* the replies to an accept request: no reply, a failure status, two
\* invitations, a success with an empty body
AcceptReplies ==
  { HttpReply(FALSE, FALSE, <<>>, <<>>),
    HttpReply(TRUE, FALSE, Status404, <<"n", "o", "t", " ", "f", "o", "u", "n", "d">>),
    HttpReply(TRUE, TRUE, Status200, InvitationA),
    HttpReply(TRUE, TRUE, Status200, InvitationB),
    HttpReply(TRUE, TRUE, Status200, <<>>) }

\* the replies to a DELETE request
DeleteReplies ==
  { HttpReply(FALSE, FALSE, <<>>, <<>>),
    HttpReply(TRUE, FALSE, Status404, <<"n", "o", "t", " ", "f", "o", "u", "n", "d">>),
    HttpReply(TRUE, TRUE, Status204, <<>>),
    HttpReply(TRUE, TRUE, Status200, EmptyObjectText),
    HttpReply(TRUE, TRUE, Status200, <<"n", "u", "l", "l">>),
    HttpReply(TRUE, TRUE, Status200, InvitationA) }

(* ----------------------------- state machine ---------------------------- *)
VARIABLES
  api_key,  \* VortexClient.api_key
  secret,   \* VortexWebhooks.secret
  clock,    \* SystemTime::now() in seconds
  jwt,      \* the generate_jwt call: its arguments, the second read, its result
  wh,       \* the call on the verifier: arguments, position, result
  verifier, \* whether a VortexWebhooks exists, and the last VortexWebhooks::new call
  calls,    \* the calls of the threads that share the client and the verifier
  base_url, \* VortexClient.base_url
  http,     \* the call of an invitation method: arguments, position, requests, result
  past      \* whether a call of this client or verifier has failed before

vars == <<api_key, secret, clock, jwt, wh, verifier, calls, base_url, http, past>>

\* the secrets VortexWebhooks::new is called with
SecretInputs == Secrets \cup {<<>>}

\* mutant: the secret is stored without a look at it
webhooks_new_Unchecked(new_secret) == "Ok"

\* VortexWebhooks::new: Err(WebhookSignatureError) for an empty secret, else
\* Ok(Self { secret })
webhooks_new(new_secret) == IF new_secret = <<>> THEN "WebhookSignatureError" ELSE "Ok"

\* threads that share one client and one verifier
MaxThreads == 2

Threads == 1..MaxThreads

\* no result yet
NoResult == [kind |-> "None", token |-> <<>>, variant |-> "None"]

\* a thread that is in no call: its arguments, what it read of the shared
\* objects, its position and its result
ThreadIdle ==
  [op |-> "none", pc |-> "Idle", user |-> NoUser, extra |-> None, payload |-> <<>>,
   signature |-> <<>>, key |-> <<>>, now |-> 0, verified |-> FALSE, result |-> NoResult]

NoCalls == [t \in Threads |-> ThreadIdle]

\* no VortexWebhooks was made yet
NoVerifier == [exists |-> FALSE, arg |-> <<>>, result |-> "None"]

\* no call of an invitation method is under way
HttpIdle ==
  [op |-> "none", pc |-> "Idle", invitation_ids |-> <<>>, form |-> "none", targets |-> <<>>,
   i |-> 0, user |-> AcceptUserNew, method |-> "none", path |-> <<>>, result_type |-> "none",
   last_result |-> HttpNone, last_error |-> HttpNone, sent |-> <<>>, applied |-> <<>>,
   reply |-> NoReply, result |-> HttpNone]

\* no call has failed yet
NoPast == [failed |-> FALSE]

JwtIdle == [called |-> FALSE, user |-> NoUser, extra |-> None, now |-> 0, result |-> Err("None")]

WhIdle ==
  [op |-> "none", payload |-> <<>>, signature |-> <<>>, pc |-> "Idle",
   verified |-> FALSE, checks |-> 0, steps |-> 0, parses |-> 0, result |-> NoEvent]

\* VortexClient::new with a key of any form; VortexWebhooks::new(secret) returned
\* Ok, so the secret is not empty
Init ==
  /\ api_key \in ApiKeys
  /\ secret \in Secrets
  /\ clock = Epoch
  /\ jwt = JwtIdle
  /\ wh = WhIdle
  /\ verifier = [exists |-> TRUE, arg |-> secret, result |-> "Ok"]
  /\ calls = NoCalls
  /\ base_url = DefaultBaseUrl
  /\ http = HttpIdle
  /\ past = NoPast

\* no call is under way and no result is waiting for the caller
Quiet == ~jwt.called /\ wh.op = "none" /\ http.op = "none"

\* a call has returned
Returned == jwt.called \/ wh.pc \in {"Returned", "Rejected", "Parsed"}

\* VortexWebhooks::new(secret): the verifier exists once it returned Ok
WebhooksNew ==
  /\ Quiet
  /\ ~verifier.exists
  /\ \E new_secret \in SecretInputs :
       /\ verifier' = [exists |-> webhooks_new(new_secret) = "Ok", arg |-> new_secret,
                       result |-> webhooks_new(new_secret)]
       /\ secret' = IF webhooks_new(new_secret) = "Ok" THEN new_secret ELSE secret
  /\ UNCHANGED <<base_url, http, past, api_key, clock, jwt, wh, calls>>

\* a second passes between two calls
Tick ==
  /\ Quiet
  /\ clock < Epoch + MaxTick
  /\ clock' = clock + 1
  /\ UNCHANGED <<base_url, http, past, api_key, secret, verifier, calls, jwt, wh>>

\* mutant: a call that fails leaves the client without its key
GenerateJwt_DropsKeyOnFailure ==
  /\ Quiet
  /\ \E user \in Users, extra \in Extras :
       \E order \in Orders(IF extra.some THEN Len(extra.v.ks) ELSE 0) :
         /\ jwt' = [called |-> TRUE, user |-> user, extra |-> extra, now |-> clock,
                    result |-> generate_jwt(api_key, user, extra, order, clock)]
         /\ api_key' = IF generate_jwt(api_key, user, extra, order, clock).kind = "Ok"
                       THEN api_key ELSE <<>>
  /\ wh' = WhIdle
  /\ UNCHANGED <<base_url, http, past, secret, verifier, calls, clock>>

GenerateJwt ==
  /\ Quiet
  /\ \E user \in Users, extra \in Extras :
       \E order \in Orders(IF extra.some THEN Len(extra.v.ks) ELSE 0) :
         jwt' = [called |-> TRUE, user |-> user, extra |-> extra, now |-> clock,
                 result |-> generate_jwt(api_key, user, extra, order, clock)]
  /\ wh' = WhIdle
  /\ UNCHANGED <<base_url, http, past, api_key, secret, verifier, calls, clock>>

\* the text is the lowercase hex of some bytes
IsHexText(text) ==
  /\ Len(text) % 2 = 0
  /\ \A i \in 1..Len(text) : \E d \in 1..16 : text[i] = HexLower[d]

\* mutant: the signature is hex-decoded first and the call panics when it is
\* not the hex text of bytes
VerifySignatureOf_HexDecode(payload, signature) ==
  /\ Quiet
  /\ verifier.exists
  /\ wh' = [op |-> "verify_signature", payload |-> payload, signature |-> signature,
            pc |-> IF IsHexText(signature) THEN "Returned" ELSE "Panicked",
            verified |-> verify_signature(secret, payload, signature),
            checks |-> 1, steps |-> verify_signature_steps(secret, payload, signature),
            parses |-> 0, result |-> NoEvent]
  /\ jwt' = JwtIdle
  /\ UNCHANGED <<base_url, http, past, api_key, secret, verifier, calls, clock>>

\* verify_signature(payload, signature) on the verifier: it has no error
\* result and returns its bool for any arguments
VerifySignatureOf(payload, signature) ==
  /\ Quiet
  /\ verifier.exists
  /\ wh' = [op |-> "verify_signature", payload |-> payload, signature |-> signature,
            pc |-> "Returned", verified |-> verify_signature(secret, payload, signature),
            checks |-> 1, steps |-> verify_signature_steps(secret, payload, signature),
            parses |-> 0, result |-> NoEvent]
  /\ jwt' = JwtIdle
  /\ UNCHANGED <<base_url, http, past, api_key, secret, verifier, calls, clock>>

VerifySignature ==
  \E payload \in Payloads, signature \in Signatures : VerifySignatureOf(payload, signature)

\* construct_event is entered
ConstructEventCall ==
  /\ Quiet
  /\ verifier.exists
  /\ \E payload \in Payloads, signature \in Signatures :
       wh' = [op |-> "construct_event", payload |-> payload, signature |-> signature,
              pc |-> "Unverified", verified |-> FALSE, checks |-> 0, steps |-> 0,
              parses |-> 0, result |-> NoEvent]
  /\ jwt' = JwtIdle
  /\ UNCHANGED <<base_url, http, past, api_key, secret, verifier, calls, clock>>

\* mutant: the payload is parsed before the signature is looked at
ConstructEventVerify_ParseFirst ==
  /\ wh.pc = "Unverified"
  /\ LET event == from_slice(wh.payload)
         ok == verify_signature(secret, wh.payload, wh.signature)
     IN wh' = IF event.kind # "Ok"
              THEN [wh EXCEPT !.parses = @ + 1, !.pc = "Rejected", !.result = event]
              ELSE [wh EXCEPT !.verified = ok, !.checks = @ + 1, !.parses = @ + 1,
                              !.steps = verify_signature_steps(secret, wh.payload, wh.signature),
                              !.pc = IF ok THEN "Verified" ELSE "Rejected",
                              !.result = IF ok THEN NoEvent
                                         ELSE [kind |-> "WebhookSignatureError", variant |-> "None"]]
  /\ UNCHANGED <<base_url, http, past, api_key, secret, verifier, calls, clock, jwt>>

\* if !self.verify_signature(payload, signature) { return Err(WebhookSignatureError) }
ConstructEventVerify ==
  /\ wh.pc = "Unverified"
  /\ LET ok == verify_signature(secret, wh.payload, wh.signature) IN
       wh' = [wh EXCEPT !.verified = ok, !.checks = @ + 1,
                        !.steps = verify_signature_steps(secret, wh.payload, wh.signature),
                        !.pc = IF ok THEN "Verified" ELSE "Rejected",
                        !.result = IF ok THEN NoEvent
                                   ELSE [kind |-> "WebhookSignatureError", variant |-> "None"]]
  /\ UNCHANGED <<base_url, http, past, api_key, secret, verifier, calls, clock, jwt>>

\* mutant: the payload is parsed whether or not the signature was checked
ConstructEventDeserialize_Unchecked ==
  /\ wh.pc \in {"Unverified", "Verified"}
  /\ LET event == from_slice(wh.payload) IN
       wh' = [wh EXCEPT !.parses = @ + 1,
                        !.pc = IF event.kind = "Ok" THEN "Parsed" ELSE "Rejected",
                        !.result = event]
  /\ UNCHANGED <<base_url, http, past, api_key, secret, verifier, calls, clock, jwt>>

\* serde_json::from_slice(payload).map_err(SerializationError)
ConstructEventDeserialize ==
  /\ wh.pc = "Verified"
  /\ LET event == from_slice(wh.payload) IN
       wh' = [wh EXCEPT !.parses = @ + 1,
                        !.pc = IF event.kind = "Ok" THEN "Parsed" ELSE "Rejected",
                        !.result = event]
  /\ UNCHANGED <<base_url, http, past, api_key, secret, verifier, calls, clock, jwt>>

\* the caller takes the result of the call
Return ==
  /\ Returned
  /\ jwt' = JwtIdle
  /\ wh' = WhIdle
  /\ UNCHANGED <<base_url, http, past, api_key, secret, verifier, calls, clock>>

\* the validation and the body of accept_invitations for a user: without email
\* and phone the call fails, else the request is ready to be sent
AcceptValidated(call, user) ==
  IF ~UserValid(user)
  THEN [call EXCEPT !.user = user, !.pc = "Returned",
                    !.result = HttpErr("InvalidRequest", MsgEmailOrPhone)]
  ELSE [call EXCEPT !.user = user, !.pc = "Sending", !.method = "POST", !.path = AcceptPath,
                    !.result_type = "Invitation"]

\* accept_invitations(invitation_ids, param) is entered with a user
AcceptInvitationsUser ==
  /\ Quiet
  /\ \E user \in AcceptUsers :
       http' = AcceptValidated([HttpIdle EXCEPT !.op = "accept_invitations", !.form = "User",
                                                !.invitation_ids = <<InvitationId>>], user)
  /\ UNCHANGED <<base_url, past, api_key, secret, clock, jwt, wh, verifier, calls>>

\* accept_invitations(invitation_ids, param) is entered with one legacy target
AcceptInvitationsTarget ==
  /\ Quiet
  /\ \E target \in Targets :
       http' = AcceptValidated([HttpIdle EXCEPT !.op = "accept_invitations", !.form = "Target",
                                                !.invitation_ids = <<InvitationId>>,
                                                !.targets = <<target>>],
                               TargetToUser(target))
  /\ UNCHANGED <<base_url, past, api_key, secret, clock, jwt, wh, verifier, calls>>

\* mutant: the empty list goes into the loop like any other
AcceptInvitationsTargets_NoEmptyCheck ==
  /\ Quiet
  /\ \E targets \in TargetLists :
       http' = [HttpIdle EXCEPT !.op = "accept_invitations", !.form = "Targets",
                                !.invitation_ids = <<InvitationId>>, !.targets = targets,
                                !.i = 1, !.pc = "Loop"]
  /\ UNCHANGED <<base_url, past, api_key, secret, clock, jwt, wh, verifier, calls>>

\* accept_invitations(invitation_ids, param) is entered with a legacy list: the
\* empty list fails at once, else the loop starts with nothing kept
AcceptInvitationsTargets ==
  /\ Quiet
  /\ \E targets \in TargetLists :
       http' = IF targets = <<>>
               THEN [HttpIdle EXCEPT !.op = "accept_invitations", !.form = "Targets",
                                     !.invitation_ids = <<InvitationId>>, !.pc = "Returned",
                                     !.result = HttpErr("InvalidRequest", MsgNoTargets)]
               ELSE [HttpIdle EXCEPT !.op = "accept_invitations", !.form = "Targets",
                                     !.invitation_ids = <<InvitationId>>, !.targets = targets,
                                     !.i = 1, !.pc = "Loop"]
  /\ UNCHANGED <<base_url, past, api_key, secret, clock, jwt, wh, verifier, calls>>

\* accept_invitation(invitation_id, user): accept_invitations(vec![id], user)
AcceptInvitation ==
  /\ Quiet
  /\ \E user \in AcceptUsers :
       http' = AcceptValidated([HttpIdle EXCEPT !.op = "accept_invitation", !.form = "User",
                                                !.invitation_ids = <<InvitationId>>], user)
  /\ UNCHANGED <<base_url, past, api_key, secret, clock, jwt, wh, verifier, calls>>

\* mutant: a success forgets the error kept before it
AcceptKept_SuccessClears(call, outcome) ==
  [call EXCEPT !.last_result = IF outcome.kind = "Ok" THEN outcome ELSE @,
               !.last_error = IF outcome.kind = "Ok" THEN HttpNone ELSE outcome,
               !.i = @ + 1, !.pc = "Loop"]

\* the outcome of the application for target i goes to last_result or to
\* last_error, and the loop moves on
AcceptKept(call, outcome) ==
  [call EXCEPT !.last_result = IF outcome.kind = "Ok" THEN outcome ELSE @,
               !.last_error = IF outcome.kind = "Ok" THEN @ ELSE outcome,
               !.i = @ + 1, !.pc = "Loop"]

\* one turn of the loop over the list: the target becomes a user and the inner
\* accept_invitations call validates it
AcceptApply ==
  /\ http.pc = "Loop"
  /\ http.i <= Len(http.targets)
  /\ LET user == TargetToUserInList(http.targets[http.i])
         inner == AcceptValidated(http, user)
     IN http' = IF inner.pc = "Returned"
                THEN AcceptKept([http EXCEPT !.user = user,
                                             !.applied = Append(@, [user |-> user,
                                                                    outcome |-> inner.result])],
                                inner.result)
                ELSE inner
  /\ UNCHANGED <<base_url, past, api_key, secret, clock, jwt, wh, verifier, calls>>

\* the call after its request went out and api_request gave the outcome: in
\* the list form the loop keeps it, else the call returns it
AcceptReplied(call, request, reply, outcome) ==
  IF call.form = "Targets"
  THEN AcceptKept([call EXCEPT !.sent = Append(@, request),
                               !.applied = Append(@, [user |-> call.user, outcome |-> outcome]),
                               !.reply = reply],
                  outcome)
  ELSE [call EXCEPT !.sent = Append(@, request),
                    !.applied = Append(@, [user |-> call.user, outcome |-> outcome]),
                    !.reply = reply,
                    !.result = outcome,
                    !.pc = "Returned"]

\* api_request of an accept call: the request goes out, some reply comes back
AcceptRequest ==
  /\ http.pc = "Sending"
  /\ http.result_type = "Invitation"
  /\ \E reply \in AcceptReplies :
       http' = AcceptReplied(http,
                             HttpRequest(base_url, api_key, http.method, http.path,
                                         AcceptBody(http.invitation_ids, http.user)),
                             reply,
                             api_request(http.method, http.result_type, reply))
  /\ UNCHANGED <<base_url, past, api_key, secret, clock, jwt, wh, verifier, calls>>

\* mutant: the result of the last application is returned
AcceptFinish_LastOutcome ==
  /\ http.pc = "Loop"
  /\ http.i > Len(http.targets)
  /\ http' = [http EXCEPT !.pc = "Returned",
                          !.result = http.applied[Len(http.applied)].outcome]
  /\ UNCHANGED <<base_url, past, api_key, secret, clock, jwt, wh, verifier, calls>>

\* after the loop: the kept error if there is one, else the kept result
AcceptFinish ==
  /\ http.pc = "Loop"
  /\ http.i > Len(http.targets)
  /\ http' = [http EXCEPT !.pc = "Returned",
                          !.result = IF http.last_error.kind # "None" THEN http.last_error
                                     ELSE IF http.last_result.kind # "None" THEN http.last_result
                                     ELSE HttpErr("InvalidRequest", MsgNoResults)]
  /\ UNCHANGED <<base_url, past, api_key, secret, clock, jwt, wh, verifier, calls>>

\* revoke_invitation(invitation_id) is entered
RevokeInvitation ==
  /\ Quiet
  /\ http' = [HttpIdle EXCEPT !.op = "revoke_invitation", !.pc = "Sending",
                              !.invitation_ids = <<InvitationId>>, !.method = "DELETE",
                              !.path = RevokePath(InvitationId), !.result_type = "unit"]
  /\ UNCHANGED <<base_url, past, api_key, secret, clock, jwt, wh, verifier, calls>>

\* delete_invitations_by_group(group_type, group_id) is entered
DeleteInvitationsByGroup ==
  /\ Quiet
  /\ http' = [HttpIdle EXCEPT !.op = "delete_invitations_by_group", !.pc = "Sending",
                              !.method = "DELETE",
                              !.path = ByGroupPath(<<"t", "e", "a", "m">>, <<"g", "1">>),
                              !.result_type = "unit"]
  /\ UNCHANGED <<base_url, past, api_key, secret, clock, jwt, wh, verifier, calls>>

\* a DELETE call after api_request gave the outcome: .await? returns the
\* error, else Ok(())
DeleteReplied(call, request, reply, outcome) ==
  [call EXCEPT !.sent = Append(@, request),
               !.reply = reply,
               !.result = IF outcome.kind = "Ok" THEN HttpOk(UnitValue) ELSE outcome,
               !.pc = "Returned"]

\* api_request::<(), ()> of the two DELETE calls, then .await?; Ok(())
DeleteRequest ==
  /\ http.pc = "Sending"
  /\ http.result_type = "unit"
  /\ \E reply \in DeleteReplies :
       http' = DeleteReplied(http,
                             HttpRequest(base_url, api_key, http.method, http.path, JNull),
                             reply,
                             api_request(http.method, http.result_type, reply))
  /\ UNCHANGED <<base_url, past, api_key, secret, clock, jwt, wh, verifier, calls>>

\* the caller takes the result of the invitation call
HttpReturn ==
  /\ http.pc = "Returned"
  /\ http' = HttpIdle
  /\ UNCHANGED <<base_url, past, api_key, secret, clock, jwt, wh, verifier, calls>>

Next ==
  \/ WebhooksNew
  \/ Tick
  \/ Return
  \/ GenerateJwt
  \/ VerifySignature
  \/ ConstructEventCall
  \/ ConstructEventVerify
  \/ ConstructEventDeserialize
  \/ AcceptInvitationsUser
  \/ AcceptInvitationsTarget
  \/ AcceptInvitationsTargets
  \/ AcceptInvitation
  \/ AcceptApply
  \/ AcceptRequest
  \/ AcceptFinish
  \/ RevokeInvitation
  \/ DeleteInvitationsByGroup
  \/ DeleteRequest
  \/ HttpReturn

\* the whole program: one client and one verifier
Spec == Init /\ [][Next]_vars

\* the call that returns has failed
CallFailed ==
  \/ jwt.called /\ jwt.result.kind # "Ok"
  \/ wh.op = "construct_event" /\ wh.pc = "Rejected"

\* the caller takes the result of the call and goes on to its next call
LifecycleReturn ==
  /\ Returned
  /\ jwt' = JwtIdle
  /\ wh' = WhIdle
  /\ past' = [failed |-> past.failed \/ CallFailed]
  /\ UNCHANGED <<base_url, http, api_key, secret, verifier, calls, clock>>

\* calls on one client and one verifier, one after another
LifecycleNext ==
  \/ GenerateJwt
  \/ VerifySignature
  \/ ConstructEventCall
  \/ ConstructEventVerify
  \/ ConstructEventDeserialize
  \/ LifecycleReturn

\* a client with a well-formed key or one with a wrong prefix
LifecycleInit ==
  /\ Init
  /\ api_key \in {Key(VRTX, IdZero, SecretText), Key(<<"v", "r", "t", "x">>, IdZero, SecretText)}
  /\ secret = WhsecTest

LifecycleSpec == LifecycleInit /\ [][LifecycleNext]_vars

\* the invitation methods alone
HttpNext ==
  \/ AcceptInvitationsUser
  \/ AcceptInvitationsTarget
  \/ AcceptInvitationsTargets
  \/ AcceptInvitation
  \/ AcceptApply
  \/ AcceptRequest
  \/ AcceptFinish
  \/ RevokeInvitation
  \/ DeleteInvitationsByGroup
  \/ DeleteRequest
  \/ HttpReturn

\* a client made by new or by with_base_url
HttpInit ==
  /\ api_key = Key(VRTX, IdZero, SecretText)
  /\ secret = WhsecTest
  /\ clock = Epoch
  /\ jwt = JwtIdle
  /\ wh = WhIdle
  /\ verifier = [exists |-> TRUE, arg |-> secret, result |-> "Ok"]
  /\ calls = NoCalls
  /\ base_url \in {DefaultBaseUrl, CustomBaseUrl}
  /\ http = HttpIdle
  /\ past = NoPast

HttpSpec == HttpInit /\ [][HttpNext]_vars

\* the client alone: the verifier is never called
JwtNext ==
  \/ Tick
  \/ GenerateJwt
  \/ Return

JwtInit == Init /\ secret = WhsecTest

JwtSpec == JwtInit /\ [][JwtNext]_vars

\* the verifier alone: the client is never called
WebhookNext ==
  \/ VerifySignature
  \/ ConstructEventCall
  \/ ConstructEventVerify
  \/ ConstructEventDeserialize
  \/ Return

WebhookInit == Init /\ api_key = Key(VRTX, IdZero, SecretText)

WebhookSpec == WebhookInit /\ [][WebhookNext]_vars

\* the verifier from its construction on
VerifierNext ==
  \/ WebhooksNew
  \/ VerifySignature
  \/ ConstructEventCall
  \/ ConstructEventVerify
  \/ ConstructEventDeserialize
  \/ Return

VerifierInit ==
  /\ api_key = Key(VRTX, IdZero, SecretText)
  /\ secret = <<>>
  /\ clock = Epoch
  /\ jwt = JwtIdle
  /\ wh = WhIdle
  /\ verifier = NoVerifier
  /\ calls = NoCalls
  /\ base_url = DefaultBaseUrl
  /\ http = HttpIdle
  /\ past = NoPast

VerifierSpec == VerifierInit /\ [][VerifierNext]_vars

(* ------------------------- what a token decodes to ---------------------- *)
\* the segments of the token the call returned
TokenParts == Split(jwt.result.token)

Produced == jwt.called /\ jwt.result.kind = "Ok"

\* a segment read back: base64url without padding, then JSON
DecodedSegment(seg) == ToValue(ParseJson(FromBytes(B64UrlDecode(seg))).v)

\* the key's parts as the documentation of the key format names them
KeySegments == Split(api_key)

KeyIdBytes == B64UrlDecode(KeySegments[2])

\* the key is malformed in one of the ways the error taxonomy lists
MalformedKey ==
  LET key == KeySegments IN
  \/ Len(key) # 3
  \/ key[1] # VRTX
  \/ ~B64UrlDecodeOk(key[2])
  \/ Len(B64UrlDecode(key[2])) # 16

(* -------------------------------- C1 ------------------------------------ *)
\* C1: for a well-formed key generate_jwt returns a token, and every token is
\* header_b64 "." payload_b64 "." sig_b64: three dot-separated segments, the
\* first two the unpadded base64url of a JSON object each, the third the
\* base64url of HMAC-SHA256(signing_key, header_b64 "." payload_b64) where
\* signing_key = HMAC-SHA256(secret segment, UUID text of the identifier); the
\* signature is not the one the secret segment itself would give as the key.
C1_TokenIsSignedTriple ==
  /\ (jwt.called /\ ~MalformedKey) => jwt.result.kind = "Ok"
  /\ Produced =>
       LET parts == TokenParts
           key == KeySegments
           signed == AsBytes(parts[1] \o <<Dot>> \o parts[2])
           signing_key == HmacSha256(AsBytes(key[3]), AsBytes(UuidToString(B64UrlDecode(key[2]))))
           header_bytes == B64UrlDecode(parts[1])
           payload_bytes == B64UrlDecode(parts[2])
       IN /\ Len(parts) = 3
          /\ B64UrlDecodeOk(parts[1]) /\ B64UrlEncode(header_bytes) = parts[1]
          /\ B64UrlDecodeOk(parts[2]) /\ B64UrlEncode(payload_bytes) = parts[2]
          /\ LET header == ParseJson(FromBytes(header_bytes)) IN header.ok /\ header.v.t = "obj"
          /\ LET payload == ParseJson(FromBytes(payload_bytes)) IN payload.ok /\ payload.v.t = "obj"
          /\ parts[3] = B64UrlEncode(HmacSha256(signing_key, signed))
          /\ parts[3] # B64UrlEncode(HmacSha256(AsBytes(key[3]), signed))
          /\ jwt.result.token = Concat(<<parts[1], <<Dot>>, parts[2], <<Dot>>, parts[3]>>)

\* a token was produced from the key whose identifier is not all zero
C1_Witness == Produced /\ KeySegments[2] = IdOther /\ jwt.extra.some

(* -------------------------------- C2 ------------------------------------ *)
\* C2: with a malformed key (a segment count other than three, a first segment
\* other than "VRTX", a second segment that is no unpadded base64url or that
\* decodes to other than 16 bytes) every generate_jwt call returns the
\* InvalidApiKey error and no token.
C2_MalformedKeyRejected ==
  (jwt.called /\ MalformedKey) => (jwt.result.kind = "InvalidApiKey" /\ jwt.result.token = <<>>)

\* a call returned with a key whose secret holds a dot (four segments)
C2_Witness == jwt.called /\ Len(KeySegments) = 4 /\ KeySegments[1] = VRTX

\* calls returned with each other kind of malformed key
C2_WitnessPrefix == jwt.called /\ Len(KeySegments) = 3 /\ KeySegments[1] # VRTX

C2_WitnessBase64 == jwt.called /\ Len(KeySegments) = 3 /\ ~B64UrlDecodeOk(KeySegments[2])

C2_WitnessLength ==
  jwt.called /\ Len(KeySegments) = 3 /\ B64UrlDecodeOk(KeySegments[2]) /\ Len(KeyIdBytes) \notin {0, 16}

(* -------------------------------- C3 ------------------------------------ *)
\* the text is a hyphenated lowercase UUID: 8-4-4-4-12 digits of 0-9a-f
CanonicalUuid(text) ==
  /\ Len(text) = 36
  /\ \A i \in 1..Len(text) :
       IF i \in {9, 14, 19, 24} THEN text[i] = "-" ELSE \E d \in 1..16 : text[i] = HexLower[d]

\* the text without its hyphens
Unhyphenated(text) ==
  SubSeq(text, 1, 8) \o SubSeq(text, 10, 13) \o SubSeq(text, 15, 18) \o SubSeq(text, 20, 23) \o SubSeq(text, 25, 36)

ZeroUuid == <<"0", "0", "0", "0", "0", "0", "0", "0", "-", "0", "0", "0", "0", "-", "0", "0", "0", "0", "-", "0", "0", "0", "0", "-", "0", "0", "0", "0", "0", "0", "0", "0", "0", "0", "0", "0">>

OtherUuid == <<"0", "1", "2", "3", "4", "5", "6", "7", "-", "8", "9", "a", "b", "-", "c", "d", "e", "f", "-", "0", "1", "2", "3", "-", "4", "5", "6", "7", "8", "9", "a", "b", "c", "d", "e", "f">>

\* C3: the decoded header of every token has exactly the four fields iat, alg,
\* typ, kid: iat the second read from the clock for this call, alg "HS256",
\* typ "JWT", kid the hyphenated lowercase UUID text of the 16 bytes of the
\* key's second segment (sixteen zero bytes give the all-zero UUID).
C3_HeaderFields ==
  Produced =>
    LET raw == ParseJson(FromBytes(B64UrlDecode(TokenParts[1]))).v
        header == ToValue(raw)
        id == B64UrlDecode(KeySegments[2])
        kid == Get(header, K_kid)
    IN /\ raw.t = "obj" /\ Len(raw.ks) = 4
       /\ {raw.ks[i] : i \in 1..4} = {K_iat, K_alg, K_typ, K_kid}
       /\ Get(header, K_iat) = JNum(jwt.now) /\ jwt.now = clock
       /\ Get(header, K_alg) = JStr(<<"H", "S", "2", "5", "6">>)
       /\ Get(header, K_typ) = JStr(<<"J", "W", "T">>)
       /\ kid.t = "str" /\ CanonicalUuid(kid.s)
       /\ \A i \in 1..16 : Unhyphenated(kid.s)[2 * i - 1] = HexLower[(id[i] \div 16) + 1]
                            /\ Unhyphenated(kid.s)[2 * i] = HexLower[(id[i] % 16) + 1]
       /\ (\A i \in 1..16 : id[i] = 0) => kid.s = ZeroUuid
       /\ KeySegments[2] = IdOther => kid.s = OtherUuid

\* a token made after the clock moved, from the key of sixteen zero bytes
C3_Witness == Produced /\ KeySegments[2] = IdZero /\ jwt.now = Epoch + MaxTick

(* -------------------------------- C4 ------------------------------------ *)
\* the keys of the extra map of the call
ExtraKeys == IF jwt.extra.some THEN {jwt.extra.v.ks[i] : i \in 1..Len(jwt.extra.v.ks)} ELSE {}

\* C4: when the extra map names none of userId, userEmail, expires, the decoded
\* payload has userId = user.id, userEmail = user.email and expires = the
\* header's iat + 3600.
C4_StandardClaims ==
  (Produced /\ ExtraKeys \cap {K_userId, K_userEmail, K_expires} = {}) =>
    LET parts == TokenParts
        header == DecodedSegment(parts[1])
        payload == DecodedSegment(parts[2])
    IN /\ HasKey(payload, K_userId) /\ Get(payload, K_userId) = JStr(jwt.user.id)
       /\ HasKey(payload, K_userEmail) /\ Get(payload, K_userEmail) = JStr(jwt.user.email)
       /\ HasKey(payload, K_expires) /\ Get(payload, K_expires) = JNum(Get(header, K_iat).n + 3600)

\* a token for a call whose extra map has entries, none of the three names
C4_Witness == Produced /\ ExtraKeys # {} /\ ExtraKeys \cap {K_userId, K_userEmail, K_expires} = {}

(* -------------------------------- C5 ------------------------------------ *)
\* C5: in the decoded payload, for each name the extra map does not supply:
\* userName, userAvatarUrl, adminScopes are present exactly when the user field
\* is set, allowedEmailDomains exactly when the field is set and not empty; a
\* present key carries the field's value.
C5_OptionalClaims ==
  Produced =>
    LET payload == DecodedSegment(TokenParts[2])
        user == jwt.user
        extra == ExtraKeys
    IN /\ K_userName \notin extra =>
            /\ HasKey(payload, K_userName) <=> user.user_name.some
            /\ user.user_name.some => Get(payload, K_userName) = JStr(user.user_name.v)
       /\ K_userAvatarUrl \notin extra =>
            /\ HasKey(payload, K_userAvatarUrl) <=> user.user_avatar_url.some
            /\ user.user_avatar_url.some => Get(payload, K_userAvatarUrl) = JStr(user.user_avatar_url.v)
       /\ K_adminScopes \notin extra =>
            /\ HasKey(payload, K_adminScopes) <=> user.admin_scopes.some
            /\ user.admin_scopes.some => Get(payload, K_adminScopes) = JStrArr(user.admin_scopes.v)
       /\ K_allowedEmailDomains \notin extra =>
            /\ HasKey(payload, K_allowedEmailDomains) <=>
                 (user.allowed_email_domains.some /\ user.allowed_email_domains.v # <<>>)
            /\ HasKey(payload, K_allowedEmailDomains) =>
                 Get(payload, K_allowedEmailDomains) = JStrArr(user.allowed_email_domains.v)

\* a token for a user with a name, no scopes and an empty list of domains
C5_Witness ==
  /\ Produced /\ ExtraKeys = {}
  /\ jwt.user.user_name.some /\ ~jwt.user.admin_scopes.some
  /\ jwt.user.allowed_email_domains = Some(<<>>)

\* a token for a user whose list of scopes is empty
C5_WitnessEmptyScopes == Produced /\ ExtraKeys = {} /\ jwt.user.admin_scopes = Some(<<>>)

(* -------------------------------- C6 ------------------------------------ *)
\* C6: every key of the extra map is in the decoded payload with the extra
\* map's value, also when it is the name of a standard claim.
C6_ExtraWins ==
  Produced =>
    LET payload == DecodedSegment(TokenParts[2]) IN
    \A k \in ExtraKeys : HasKey(payload, k) /\ Get(payload, k) = Get(jwt.extra.v, k)

\* a token for a call whose extra map names userId and expires
C6_Witness == Produced /\ {K_userId, K_expires} \subseteq ExtraKeys

\* a token for a call whose extra map names a claim the user record also sets
C6_WitnessOptional == Produced /\ K_userName \in ExtraKeys /\ jwt.user.user_name.some

(* -------------------------------- C7 ------------------------------------ *)
\* the text is the lowercase hexadecimal of the bytes, two digits a byte
IsLowerHexOf(text, bytes) ==
  /\ Len(text) = 2 * Len(bytes)
  /\ \A i \in 1..Len(bytes) :
       /\ text[2 * i - 1] = HexLower[(bytes[i] \div 16) + 1]
       /\ text[2 * i] = HexLower[(bytes[i] % 16) + 1]

\* the signature of every payload of the model under every secret of the model
SignatureOf == Table([kp \in Secrets \X Payloads |-> sign(kp[1], kp[2])])

\* no two signatures of the model are equal, and none is a signature of the
\* model that was not computed
DigestsDistinct ==
  /\ \A k1, k2 \in Secrets, p1, p2 \in Payloads :
       SignatureOf[k1, p1] = SignatureOf[k2, p2] => (k1 = k2 /\ p1 = p2)
  /\ \A k \in Secrets, p \in Payloads : SignatureOf[k, p] \notin {<<"b", "a", "d", "_", "s", "i", "g">>, <<>>}

\* the signature of the call is the one the verifier's secret gives its payload
SignatureValid == wh.signature = SignatureOf[secret, wh.payload]

\* C7: when the signature is the lowercase hex of HMAC-SHA256(secret, payload)
\* under the verifier's own secret, verify_signature returns true, and
\* construct_event does not fail with the signature error.
C7_ValidSignatureVerifies ==
  (wh.checks > 0 /\ IsLowerHexOf(wh.signature, HmacSha256(AsBytes(secret), wh.payload))) =>
    (wh.verified /\ wh.result.kind # "WebhookSignatureError")

\* verify_signature returned true for the sample event and its signature
C7_Witness ==
  /\ wh.op = "verify_signature" /\ wh.pc = "Returned" /\ wh.verified
  /\ wh.payload = SampleWebhook /\ SignatureValid

(* -------------------------------- C8 ------------------------------------ *)
\* C8: when the signature was computed for a payload and a secret of which one
\* differs from the call's payload or the verifier's secret, verify_signature
\* returns false and construct_event fails with the signature error before any
\* parsing. HMAC is taken as collision-free: no two signatures of the model
\* are equal.
C8_OtherSignatureRejected ==
  /\ DigestsDistinct
  /\ wh.checks > 0 =>
       \A k \in Secrets, p \in Payloads :
         (wh.signature = SignatureOf[k, p] /\ (p # wh.payload \/ k # secret)) =>
           /\ ~wh.verified
           /\ wh.op = "construct_event" =>
                (wh.pc = "Rejected" /\ wh.result.kind = "WebhookSignatureError" /\ wh.parses = 0)

\* construct_event rejected the sample event with one byte changed, signed as
\* the sample event
C8_Witness ==
  /\ wh.op = "construct_event" /\ wh.pc = "Rejected"
  /\ wh.payload = TamperedWebhook /\ wh.signature = SignatureOf[secret, SampleWebhook]

\* verify_signature returned for a signature made with the other secret
C8_WitnessOtherSecret ==
  /\ wh.op = "verify_signature" /\ wh.pc = "Returned"
  /\ \E k \in Secrets \ {secret} : wh.signature = SignatureOf[k, wh.payload]

(* -------------------------------- C9 ------------------------------------ *)
\* payloads of the model that are neither event: no JSON, or JSON of neither shape
Shapeless == {NeitherShape, NotJson, <<>>}

\* C9: construct_event fails in two kinds. A signature that does not verify
\* gives the signature error, whether or not the payload parses; a verified
\* signature over a payload of neither shape gives the deserialization error;
\* the signature error is never reported after a passed check and the
\* deserialization error never before one.
C9_TwoErrorKinds ==
  (wh.op = "construct_event" /\ wh.pc \in {"Rejected", "Parsed"}) =>
    /\ ~SignatureValid => wh.result.kind = "WebhookSignatureError"
    /\ (SignatureValid /\ wh.payload \in Shapeless) => wh.result.kind = "SerializationError"
    /\ (SignatureValid /\ wh.payload \notin Shapeless) => (wh.result.kind = "Ok" /\ wh.pc = "Parsed")
    /\ wh.result.kind = "WebhookSignatureError" => (~wh.verified /\ wh.parses = 0)
    /\ wh.result.kind = "SerializationError" => (wh.verified /\ SignatureValid)

\* the deserialization error: a verified signature over a payload that is no JSON
C9_Witness ==
  /\ wh.op = "construct_event" /\ wh.pc = "Rejected"
  /\ wh.result.kind = "SerializationError" /\ wh.payload = NotJson

\* the signature error for a payload that is no JSON, and for one that parses
C9_WitnessUnparseable ==
  /\ wh.op = "construct_event" /\ wh.pc = "Rejected"
  /\ wh.result.kind = "WebhookSignatureError" /\ wh.payload = NotJson

C9_WitnessParseable ==
  /\ wh.op = "construct_event" /\ wh.pc = "Rejected"
  /\ wh.result.kind = "WebhookSignatureError" /\ wh.payload = SampleWebhook

(* -------------------------------- C10 ----------------------------------- *)
\* C10: a construct_event call moves Unverified -> Verified | Rejected and
\* Verified -> Parsed | Rejected. Verified is entered only from Unverified with
\* a signature that verifies, Parsed only from Verified for the same payload
\* and signature, and the payload is deserialized only when the check passed.
C10_Pipeline ==
  [][ /\ wh.pc = "Unverified" => wh'.pc \in {"Verified", "Rejected"}
      /\ wh.pc = "Verified" => wh'.pc \in {"Parsed", "Rejected"}
      /\ wh'.pc = "Unverified" => wh.pc = "Idle"
      /\ wh'.pc = "Verified" => (wh.pc = "Unverified" /\ SignatureValid /\ wh'.verified)
      /\ wh'.pc = "Parsed" => (wh.pc = "Verified" /\ wh.verified /\ wh.checks = 1 /\ SignatureValid)
      /\ wh'.parses > wh.parses => (wh.pc = "Verified" /\ wh.verified /\ SignatureValid)
      /\ wh.pc \in {"Unverified", "Verified"} =>
           (wh'.payload = wh.payload /\ wh'.signature = wh.signature /\ secret' = secret)
    ]_vars

\* an event was parsed
C10_Witness == wh.op = "construct_event" /\ wh.pc = "Parsed" /\ wh.parses = 1 /\ wh.checks = 1

\* a verified payload was rejected by the parser
C10_WitnessRejectedLate == wh.op = "construct_event" /\ wh.pc = "Rejected" /\ wh.parses = 1

(* -------------------------------- C11 ----------------------------------- *)
\* C11: VortexWebhooks::new returns the webhook signature error for the empty
\* secret and Ok for every other; a verifier that exists holds a secret that
\* is not empty, and once it exists no step changes the secret or ends it.
C11_SecretNeverEmpty ==
  /\ [](/\ verifier.result = "WebhookSignatureError" <=> (verifier.result # "None" /\ verifier.arg = <<>>)
        /\ verifier.result = "Ok" <=> (verifier.result # "None" /\ verifier.arg # <<>>)
        /\ verifier.exists <=> verifier.result = "Ok"
        /\ verifier.exists => (secret # <<>> /\ secret = verifier.arg))
  /\ [][verifier.exists => (verifier'.exists /\ secret' = secret)]_vars

\* new was refused for the empty secret
C11_Witness == ~verifier.exists /\ verifier.result = "WebhookSignatureError" /\ verifier.arg = <<>>

\* a verifier made by new has answered a call
C11_WitnessUsed == verifier.exists /\ verifier.arg = WhsecTest /\ wh.pc = "Parsed"

(* -------------------------------- C12 ----------------------------------- *)
\* C12: generate_jwt with a key of three segments whose third segment is empty
\* returns an error and no token. The code has no such check: parts.len() is 3,
\* new_from_slice takes the zero-length key, and a token is returned.
C12_EmptySecretRejected ==
  (jwt.called /\ Len(KeySegments) = 3 /\ KeySegments[3] = <<>>) =>
    (jwt.result.kind # "Ok" /\ jwt.result.token = <<>>)

\* what the code does instead: a key with an empty secret is refused only for
\* its other segments
C12_EmptySecretAccepted ==
  (jwt.called /\ Len(KeySegments) = 3 /\ KeySegments[3] = <<>>) =>
    (jwt.result.kind = "Ok" <=> ~MalformedKey)

(* -------------------------------- C13 ----------------------------------- *)
\* C13: the result of a call is the result of every call with the same key,
\* user, extra map and second, whatever the iteration order of the extra map;
\* the parsed (uuid text, secret) pair is a function of the key alone.
C13_Deterministic ==
  jwt.called =>
    /\ \A order \in Orders(IF jwt.extra.some THEN Len(jwt.extra.v.ks) ELSE 0) :
         generate_jwt(api_key, jwt.user, jwt.extra, order, jwt.now) = jwt.result
    /\ LET parsed == ParseApiKey(api_key) IN
       parsed.ok => (parsed.uuid_str = UuidToString(KeyIdBytes) /\ parsed.key = KeySegments[3])

\* a token for a call whose extra map has two entries, both new to the payload
C13_Witness ==
  /\ Produced /\ ExtraKeys = {K_allowedEmailDomains, K_adminScopes}
  /\ ~jwt.user.admin_scopes.some /\ ~jwt.user.allowed_email_domains.some

(* -------------------------------- C14 ----------------------------------- *)
\* the keys the caller's user record supplies, and their values
UserKeys ==
  {K_userId, K_userEmail}
    \cup (IF jwt.user.user_name.some THEN {K_userName} ELSE {})
    \cup (IF jwt.user.user_avatar_url.some THEN {K_userAvatarUrl} ELSE {})
    \cup (IF jwt.user.admin_scopes.some THEN {K_adminScopes} ELSE {})
    \cup (IF jwt.user.allowed_email_domains.some /\ jwt.user.allowed_email_domains.v # <<>>
          THEN {K_allowedEmailDomains} ELSE {})

UserClaim(k) ==
  CASE k = K_userId -> JStr(jwt.user.id)
    [] k = K_userEmail -> JStr(jwt.user.email)
    [] k = K_userName -> JStr(jwt.user.user_name.v)
    [] k = K_userAvatarUrl -> JStr(jwt.user.user_avatar_url.v)
    [] k = K_adminScopes -> JStrArr(jwt.user.admin_scopes.v)
    [] k = K_allowedEmailDomains -> JStrArr(jwt.user.allowed_email_domains.v)

\* C14: the second segment of every token decodes (base64url without padding,
\* then JSON) to an object whose keys are the user's claims, expires and the
\* keys of the extra map, each once, and whose values are the supplied ones:
\* the extra map's where it names the key, else the user's, else now + 3600.
C14_PayloadRoundTrip ==
  Produced =>
    LET seg == TokenParts[2]
        parsed == ParseJson(FromBytes(B64UrlDecode(seg)))
        payload == ToValue(parsed.v)
        extra == ExtraKeys
        supplied == UserKeys \cup {K_expires} \cup extra
    IN /\ B64UrlDecodeOk(seg)
       /\ parsed.ok /\ parsed.v.t = "obj"
       /\ Len(parsed.v.ks) = Cardinality(supplied)
       /\ {parsed.v.ks[i] : i \in 1..Len(parsed.v.ks)} = supplied
       /\ \A k \in supplied :
            Get(payload, k) = IF k \in extra THEN Get(jwt.extra.v, k)
                              ELSE IF k = K_expires THEN JNum(jwt.now + 3600)
                              ELSE UserClaim(k)

\* a token whose payload holds a name with quotes and an entry of the extra map
C14_Witness == Produced /\ jwt.user.user_name.some /\ ExtraKeys = {<<"r", "o", "l", "e">>}

(* -------------------------------- C15 ----------------------------------- *)
\* a secret no key of the model has
PeerSecret == <<"o", "t", "h", "e", "r", "_", "k", "e", "y">>

\* the values of the fields of an object
FieldValues(obj) == {obj.xs[i] : i \in 1..Len(obj.xs)}

\* C15: a key with the same identifier and another secret gives, for the same
\* user, extra map and second, a token with the same header and payload
\* segments and another signature; the secret is the value of no header or
\* payload field unless the caller passed it as a claim.
C15_SecretOnlyInSignature ==
  Produced =>
    LET parts == TokenParts
        key == KeySegments
        order == CHOOSE o \in Orders(IF jwt.extra.some THEN Len(jwt.extra.v.ks) ELSE 0) : TRUE
        peer == generate_jwt(Key(VRTX, key[2], PeerSecret), jwt.user, jwt.extra, order, jwt.now)
        peer_parts == Split(peer.token)
        header == DecodedSegment(parts[1])
        payload == DecodedSegment(parts[2])
    IN /\ key[3] # PeerSecret
       /\ peer.kind = "Ok"
       /\ peer_parts[1] = parts[1]
       /\ peer_parts[2] = parts[2]
       /\ peer_parts[3] # parts[3]
       /\ JStr(key[3]) \notin FieldValues(header)
       /\ \A k \in UserKeys \cup {K_expires} \cup ExtraKeys :
            Get(payload, k) = JStr(key[3]) =>
              \/ k \in ExtraKeys /\ Get(jwt.extra.v, k) = JStr(key[3])
              \/ k \in UserKeys /\ UserClaim(k) = JStr(key[3])

\* a token made from a key whose secret is not empty
C15_Witness == Produced /\ KeySegments[3] = SecretText /\ KeySegments[2] = IdOther

(* -------------------------------- C16 ----------------------------------- *)
\* C16: a comparison of texts of different lengths runs no loop step and
\* fails; a comparison of texts of one length runs one loop step for each
\* byte pair, whether the texts are equal, differ at the first byte or differ
\* at the last byte.
C16_EveryBytePairProcessed ==
  wh.checks = 1 =>
    LET expected == SignatureOf[secret, wh.payload] IN
      /\ Len(wh.signature) # Len(expected) => wh.steps = 0 /\ ~wh.verified
      /\ Len(wh.signature) = Len(expected) => wh.steps = Len(expected)
      /\ \A other \in Signatures :
           Len(other) = Len(wh.signature) =>
             verify_signature_steps(secret, wh.payload, other) = wh.steps

\* a signature that differs from the expected one at its first byte only was
\* compared
C16_Witness ==
  /\ wh.checks = 1
  /\ wh.signature = FirstByteWrong
  /\ LET expected == SignatureOf[secret, wh.payload] IN
       /\ expected[1] # wh.signature[1]
       /\ \A i \in 2..Len(expected) : expected[i] = wh.signature[i]

\* a signature that differs from the expected one at its last byte only was
\* compared
C16_WitnessLast ==
  /\ wh.checks = 1
  /\ wh.signature = LastByteWrong
  /\ ~wh.verified
  /\ LET expected == SignatureOf[secret, wh.payload] IN
       \A i \in 1..(Len(expected) - 1) : expected[i] = wh.signature[i]

(* -------------------------------- C17 ----------------------------------- *)
\* C17: every call of verify_signature, with any payload and any signature of
\* the model, the empty payload and the empty, short and non-hex signatures
\* among them, has returned a boolean and no error: true when the signature is
\* the expected one, false otherwise.
C17_VerifyTotal ==
  wh.op = "verify_signature" =>
       /\ wh.pc = "Returned"
       /\ wh.checks = 1
       /\ wh.result = NoEvent
       /\ wh.verified \in BOOLEAN
       /\ wh.verified <=> SignatureValid

\* verify_signature returned false for the empty payload and a signature that
\* is no hex text
C17_Witness ==
  /\ wh.op = "verify_signature" /\ wh.pc = "Returned" /\ ~wh.verified
  /\ wh.payload = <<>>
  /\ wh.signature = <<"b", "a", "d", "_", "s", "i", "g">>

\* verify_signature returned false for the empty signature
C17_WitnessEmpty ==
  /\ wh.op = "verify_signature" /\ wh.pc = "Returned" /\ ~wh.verified
  /\ wh.signature = <<>>

(* -------------------------------- C18 ----------------------------------- *)
\* the three claims every payload has
StandardKeys == {K_userId, K_userEmail, K_expires}

\* C18: the decoded payload of every token has the keys userId, userEmail and
\* expires, each once, for every user and every extra map; an extra entry
\* named like one of them replaces the value and leaves the key.
C18_StandardKeysPresent ==
  Produced =>
    LET payload == DecodedSegment(TokenParts[2]) IN
    \A k \in StandardKeys :
      /\ Cardinality({i \in 1..Len(payload.ks) : payload.ks[i] = k}) = 1
      /\ k \in ExtraKeys => Get(payload, k) = Get(jwt.extra.v, k)
      /\ k \notin ExtraKeys =>
           Get(payload, k) = (IF k = K_expires THEN JNum(jwt.now + TokenLifetime) ELSE UserClaim(k))

\* a token for a call whose extra map names one of the three claims
C18_Witness ==
  /\ Produced
  /\ ExtraKeys \cap StandardKeys # {}
  /\ HasKey(DecodedSegment(TokenParts[2]), K_userEmail)

(* -------------------------------- C19 ----------------------------------- *)
\* payloads of the model that have every required webhook field (one of them
\* has the analytics fields too, one is the sequence form of the struct)
WebhookShaped == {SampleWebhook, TamperedWebhook, BothShapes, SequenceWebhook}

\* payloads of the model that have the analytics fields and not the webhook ones
AnalyticsShaped == {SampleAnalytics}

\* C19: after a passed signature check construct_event gives the Webhook
\* variant for a payload of the webhook shape, else the Analytics variant for
\* a payload of the analytics shape, else it fails; of is_webhook_event and
\* is_analytics_event exactly one holds for a parsed event, the one of its
\* variant.
C19_VariantByShape ==
  (wh.op = "construct_event" /\ wh.verified /\ wh.pc \in {"Parsed", "Rejected"}) =>
    /\ wh.payload \in WebhookShaped =>
         (wh.pc = "Parsed" /\ wh.result.kind = "Ok" /\ wh.result.variant = "Webhook")
    /\ wh.payload \in AnalyticsShaped =>
         (wh.pc = "Parsed" /\ wh.result.kind = "Ok" /\ wh.result.variant = "Analytics")
    /\ wh.payload \notin (WebhookShaped \cup AnalyticsShaped) =>
         (wh.pc = "Rejected" /\ wh.result.kind = "SerializationError")
    /\ wh.pc = "Parsed" =>
         /\ is_webhook_event(wh.result) # is_analytics_event(wh.result)
         /\ is_webhook_event(wh.result) <=> wh.result.variant = "Webhook"
         /\ is_analytics_event(wh.result) <=> wh.result.variant = "Analytics"

\* the payload with the fields of both shapes was parsed
C19_Witness ==
  /\ wh.op = "construct_event" /\ wh.pc = "Parsed" /\ wh.payload = BothShapes
  /\ is_webhook_event(wh.result)

\* the analytics sample was parsed
C19_WitnessAnalytics ==
  /\ wh.op = "construct_event" /\ wh.pc = "Parsed" /\ wh.payload = SampleAnalytics
  /\ is_analytics_event(wh.result)

\* the sequence form was parsed
C19_WitnessSequence ==
  /\ wh.op = "construct_event" /\ wh.pc = "Parsed" /\ wh.payload = SequenceWebhook

(* ------------- threads that share the client and the verifier ----------- *)
\* construct_event as one function: the signature check, then the parse
construct_event(self_secret, payload, signature) ==
  IF ~verify_signature(self_secret, payload, signature)
  THEN [kind |-> "WebhookSignatureError", variant |-> "None"]
  ELSE from_slice(payload)

\* the key of the shared client and the secret of the shared verifier
ThreadKey == Key(VRTX, IdZero, SecretText)

ThreadSecret == WhsecTest

\* the arguments the threads call generate_jwt with
ThreadJwtInputs ==
  { <<SampleUser(None, None, None, None), None>>,
    <<SampleUser(None, None, Some(<<>>), None),
      Some(JObj(<<<<"r", "o", "l", "e">>>>, <<JStr(<<"a", "d", "m", "i", "n">>)>>))>> }

\* the arguments the threads call verify_signature and construct_event with
ThreadWebhookInputs ==
  { <<SampleWebhook, sign(ThreadSecret, SampleWebhook)>>,
    <<NotJson, sign(ThreadSecret, SampleWebhook)>> }

\* the iteration order of an extra map of at most one entry
OnlyOrder(extra) == IF extra.some /\ Len(extra.v.ks) = 1 THEN <<1>> ELSE <<>>

ThreadResultJwt(r) == [kind |-> r.kind, token |-> r.token, variant |-> "None"]

ThreadResultEvent(e) == [kind |-> e.kind, token |-> <<>>, variant |-> e.variant]

\* mutant: the payload is read from a buffer that the calls share
ThreadPayload_Shared(t) == calls[1].payload

\* the payload a call of thread t reads: the slice it was called with
ThreadPayload(t) == calls[t].payload

\* generate_jwt(&self, user, extra) is entered and reads self.api_key
ThreadGenerateJwt ==
  \E t \in Threads, in \in ThreadJwtInputs :
    /\ calls[t].pc = "Idle"
    /\ calls' = [calls EXCEPT ![t] = [ThreadIdle EXCEPT !.op = "generate_jwt", !.pc = "Called",
                                                        !.user = in[1], !.extra = in[2],
                                                        !.key = api_key]]
    /\ UNCHANGED <<base_url, http, past, api_key, secret, clock, jwt, wh, verifier>>

\* SystemTime::now()
ThreadReadClock ==
  \E t \in Threads :
    /\ calls[t].op = "generate_jwt" /\ calls[t].pc = "Called"
    /\ calls' = [calls EXCEPT ![t].now = clock, ![t].pc = "ClockRead"]
    /\ UNCHANGED <<base_url, http, past, api_key, secret, clock, jwt, wh, verifier>>

\* the token is built and signed from the call's own values
ThreadEncode ==
  \E t \in Threads :
    /\ calls[t].op = "generate_jwt" /\ calls[t].pc = "ClockRead"
    /\ calls' = [calls EXCEPT
                   ![t].result = ThreadResultJwt(generate_jwt(calls[t].key, calls[t].user,
                                                              calls[t].extra,
                                                              OnlyOrder(calls[t].extra),
                                                              calls[t].now)),
                   ![t].pc = "Returned"]
    /\ UNCHANGED <<base_url, http, past, api_key, secret, clock, jwt, wh, verifier>>

\* verify_signature(&self, payload, signature) is entered
ThreadVerifySignature ==
  \E t \in Threads, in \in ThreadWebhookInputs :
    /\ calls[t].pc = "Idle"
    /\ calls' = [calls EXCEPT ![t] = [ThreadIdle EXCEPT !.op = "verify_signature",
                                                        !.pc = "Unverified",
                                                        !.payload = in[1], !.signature = in[2]]]
    /\ UNCHANGED <<base_url, http, past, api_key, secret, clock, jwt, wh, verifier>>

\* construct_event(&self, payload, signature) is entered
ThreadConstructEvent ==
  \E t \in Threads, in \in ThreadWebhookInputs :
    /\ calls[t].pc = "Idle"
    /\ calls' = [calls EXCEPT ![t] = [ThreadIdle EXCEPT !.op = "construct_event",
                                                        !.pc = "Unverified",
                                                        !.payload = in[1], !.signature = in[2]]]
    /\ UNCHANGED <<base_url, http, past, api_key, secret, clock, jwt, wh, verifier>>

\* the signature check of either call, which reads self.secret
ThreadVerify ==
  \E t \in Threads :
    /\ calls[t].pc = "Unverified"
    /\ LET ok == verify_signature(secret, ThreadPayload(t), calls[t].signature) IN
         calls' = [calls EXCEPT
                     ![t].verified = ok,
                     ![t].pc = IF calls[t].op = "verify_signature" THEN "Returned"
                               ELSE IF ok THEN "Verified" ELSE "Rejected",
                     ![t].result = IF calls[t].op = "construct_event" /\ ~ok
                                   THEN ThreadResultEvent([kind |-> "WebhookSignatureError",
                                                           variant |-> "None"])
                                   ELSE NoResult]
    /\ UNCHANGED <<base_url, http, past, api_key, secret, clock, jwt, wh, verifier>>

\* serde_json::from_slice(payload) of a construct_event call
ThreadDeserialize ==
  \E t \in Threads :
    /\ calls[t].op = "construct_event" /\ calls[t].pc = "Verified"
    /\ LET event == from_slice(ThreadPayload(t)) IN
         calls' = [calls EXCEPT ![t].result = ThreadResultEvent(event),
                                ![t].pc = IF event.kind = "Ok" THEN "Parsed" ELSE "Rejected"]
    /\ UNCHANGED <<base_url, http, past, api_key, secret, clock, jwt, wh, verifier>>

\* the caller takes the result
ThreadReturn ==
  \E t \in Threads :
    /\ calls[t].pc \in {"Returned", "Rejected", "Parsed"}
    /\ calls' = [calls EXCEPT ![t] = ThreadIdle]
    /\ UNCHANGED <<base_url, http, past, api_key, secret, clock, jwt, wh, verifier>>

\* the steps of the threads, within one second of the clock
ConcurrentNext ==
  \/ ThreadGenerateJwt
  \/ ThreadReadClock
  \/ ThreadEncode
  \/ ThreadVerifySignature
  \/ ThreadConstructEvent
  \/ ThreadVerify
  \/ ThreadDeserialize
  \/ ThreadReturn

\* one client and one verifier, made before the threads start
ConcurrentInit ==
  /\ api_key = ThreadKey
  /\ secret = ThreadSecret
  /\ clock = Epoch
  /\ jwt = JwtIdle
  /\ wh = WhIdle
  /\ verifier = [exists |-> TRUE, arg |-> ThreadSecret, result |-> "Ok"]
  /\ calls = NoCalls
  /\ base_url = DefaultBaseUrl
  /\ http = HttpIdle
  /\ past = NoPast

\* the calls of the threads, their steps in any order
ConcurrentSpec == ConcurrentInit /\ [][ConcurrentNext]_vars

(* -------------------------------- C20 ----------------------------------- *)
\* the result of each generate_jwt call made alone
AloneJwt ==
  Table([x \in ThreadJwtInputs |->
           ThreadResultJwt(generate_jwt(ThreadKey, x[1], x[2], OnlyOrder(x[2]), Epoch))])

\* the result of each verify_signature call made alone
AloneVerify ==
  Table([x \in ThreadWebhookInputs |-> verify_signature(ThreadSecret, x[1], x[2])])

\* the result of each construct_event call made alone
AloneConstruct ==
  Table([x \in ThreadWebhookInputs |->
           ThreadResultEvent(construct_event(ThreadSecret, x[1], x[2]))])

\* C20: while several threads are in calls of generate_jwt, verify_signature
\* and construct_event on one client and one verifier, each finished call has
\* the result the same call gives alone, and no step writes the key, the
\* secret, or the record of a call of another thread.
C20_CallsIndependent ==
  /\ [](\A t \in Threads :
          LET c == calls[t] IN
            /\ (c.op = "generate_jwt" /\ c.pc = "Returned") =>
                 (c.now = Epoch /\ c.result = AloneJwt[<<c.user, c.extra>>])
            /\ (c.op = "verify_signature" /\ c.pc = "Returned") =>
                 (c.verified = AloneVerify[<<c.payload, c.signature>>] /\ c.result = NoResult)
            /\ (c.op = "construct_event" /\ c.pc \in {"Parsed", "Rejected"}) =>
                 c.result = AloneConstruct[<<c.payload, c.signature>>])
  /\ [][ /\ api_key' = api_key
         /\ secret' = secret
         /\ \A t, u \in Threads : (t # u /\ calls'[t] # calls[t]) => calls'[u] = calls[u]
       ]_vars

\* two calls are finished at once: a token and a parsed event
C20_Witness ==
  \E t, u \in Threads :
    /\ t # u
    /\ calls[t].op = "generate_jwt" /\ calls[t].pc = "Returned" /\ calls[t].result.kind = "Ok"
    /\ calls[u].op = "construct_event" /\ calls[u].pc = "Parsed"

\* two threads are between the steps of their calls at once
C20_WitnessMidCall ==
  \E t, u \in Threads :
    /\ t # u
    /\ calls[t].pc = "ClockRead"
    /\ calls[u].pc = "Verified" /\ calls[u].payload # calls[t].payload

(* -------------------------------- C21 ----------------------------------- *)
\* C21: no step of a generate_jwt, verify_signature or construct_event call,
\* passed or failed, changes the client's api_key and base_url or the
\* verifier's secret; and the result of every call is the one its own
\* arguments give with the key parsed anew, whether or not a call failed
\* before it.
C21_CallsLeaveObjectsUnchanged ==
  /\ [][api_key' = api_key /\ base_url' = base_url /\ secret' = secret]_vars
  /\ []( /\ jwt.called =>
              /\ jwt.result.kind = "Ok" <=> ParseApiKey(api_key).ok
              /\ jwt.result =
                   generate_jwt(api_key, jwt.user, jwt.extra,
                                CHOOSE o \in Orders(IF jwt.extra.some THEN Len(jwt.extra.v.ks)
                                                    ELSE 0) : TRUE,
                                jwt.now)
         /\ wh.checks > 0 => (wh.verified <=> wh.signature = SignatureOf[secret, wh.payload])
         /\ (wh.op = "construct_event" /\ wh.pc \in {"Parsed", "Rejected"}) =>
              wh.result = IF wh.signature = SignatureOf[secret, wh.payload]
                          THEN from_slice(wh.payload)
                          ELSE [kind |-> "WebhookSignatureError", variant |-> "None"] )

\* a token was made after an earlier call had failed
C21_Witness == past.failed /\ jwt.called /\ jwt.result.kind = "Ok"

\* an event was parsed after an earlier call had failed
C21_WitnessParsed == past.failed /\ wh.pc = "Parsed"

(* -------------------------------- C22 ----------------------------------- *)
\* a call with a legacy list of at least one target has returned
ListReturned ==
  /\ http.op = "accept_invitations" /\ http.form = "Targets" /\ http.pc = "Returned"
  /\ Len(http.targets) >= 1

\* the applications that failed, by their place in the list
FailedAt == {k \in 1..Len(http.applied) : http.applied[k].outcome.kind # "Ok"}

\* the greatest element of a set of numbers that is not empty
Greatest(S) == CHOOSE k \in S : \A j \in S : j <= k

\* C22 as stated: a call with a list of N >= 1 targets returns the result or
\* error of the last of its N applications.
C22_LastOutcomeReturned ==
  ListReturned => http.result = http.applied[Len(http.applied)].outcome

\* C22, amended: a call with a list of N >= 1 targets applies the accept
\* operation once for each element, in list order, each with one request;
\* it returns the error of the last application that failed if one failed,
\* and else the result of the last application.
C22_LastErrorElseLastResult ==
  ListReturned =>
    /\ Len(http.applied) = Len(http.targets)
    /\ Len(http.sent) = Len(http.targets)
    /\ \A k \in 1..Len(http.targets) :
         /\ http.applied[k].user = TargetToUserInList(http.targets[k])
         /\ http.sent[k].body = AcceptBody(http.invitation_ids, http.applied[k].user)
    /\ http.result = IF FailedAt # {} THEN http.applied[Greatest(FailedAt)].outcome
                     ELSE http.applied[Len(http.applied)].outcome

\* a list call has returned the error of its first application though its last
\* one succeeded
C22_Witness ==
  /\ ListReturned
  /\ Len(http.targets) >= 2
  /\ http.applied[1].outcome.kind = "ApiError"
  /\ http.applied[Len(http.applied)].outcome.kind = "Ok"
  /\ http.result = http.applied[1].outcome

(* -------------------------------- C23 ----------------------------------- *)
\* the text has the part somewhere in it
Contains(text, part) ==
  \E i \in 1..(Len(text) - Len(part) + 1) : SubSeq(text, i, i + Len(part) - 1) = part

EmailOrPhone == <<"e", "m", "a", "i", "l", " ", "o", "r", " ", "p", "h", "o", "n", "e">>

\* C23: accept_invitations and accept_invitation with a user that has neither
\* email nor phone fail with InvalidRequest, the message naming "email or
\* phone", and send nothing; every request that was sent carries a user with
\* an email or a phone.
C23_UserNeedsEmailOrPhone ==
  /\ (http.form = "User" /\ http.pc # "Idle" /\ ~http.user.email.some /\ ~http.user.phone.some) =>
       /\ http.pc = "Returned"
       /\ http.result.kind = "InvalidRequest"
       /\ Contains(http.result.msg, EmailOrPhone)
       /\ http.sent = <<>>
  /\ http.op \in {"accept_invitations", "accept_invitation"} =>
       /\ http.pc = "Sending" => (http.user.email.some \/ http.user.phone.some)
       /\ \A k \in 1..Len(http.sent) :
            LET user == Get(http.sent[k].body, K_user) IN
            HasKey(user, K_email) \/ HasKey(user, K_phone)

\* accept_invitation was refused for a user that has a name only
C23_Witness ==
  /\ http.op = "accept_invitation" /\ http.pc = "Returned"
  /\ http.user.name.some /\ ~http.user.email.some /\ ~http.user.phone.some
  /\ http.result.kind = "InvalidRequest"

\* accept_invitations sent a request for a user that has a phone only
C23_WitnessSent ==
  /\ http.op = "accept_invitations" /\ http.form = "User" /\ Len(http.sent) = 1
  /\ ~http.user.email.some /\ http.user.phone.some

(* -------------------------------- C24 ----------------------------------- *)
\* C24: accept_invitations with the empty legacy list fails with
\* InvalidRequest "No targets provided"; no target was applied and no request
\* sent.
C24_EmptyListRejected ==
  (http.form = "Targets" /\ http.targets = <<>>) =>
    /\ http.pc = "Returned"
    /\ http.result = HttpErr("InvalidRequest", <<"N", "o", " ", "t", "a", "r", "g", "e", "t", "s", " ", "p", "r", "o", "v", "i", "d", "e", "d">>)
    /\ http.applied = <<>>
    /\ http.sent = <<>>
    /\ http.i = 0

\* the call with the empty list has returned
C24_Witness ==
  /\ http.op = "accept_invitations" /\ http.form = "Targets" /\ http.targets = <<>>
  /\ http.pc = "Returned" /\ http.result.kind = "InvalidRequest"

(* -------------------------------- C26 ----------------------------------- *)
\* C26: in the list form every target is attempted, also after a failure; if
\* an attempt failed the call returns an error, the most recent one, also
\* when the last target or every later target succeeded; a success is
\* returned only when every attempt succeeded, and it is the last one.
C26_FailureIsSticky ==
  /\ (http.form = "Targets" /\ http.pc = "Loop") =>
       /\ Len(http.applied) = http.i - 1
       /\ FailedAt # {} <=> http.last_error.kind # "None"
       /\ FailedAt # {} => http.last_error = http.applied[Greatest(FailedAt)].outcome
       /\ http.i <= Len(http.targets) => ENABLED AcceptApply
  /\ ListReturned =>
       /\ Len(http.applied) = Len(http.targets)
       /\ FailedAt # {} =>
            (http.result.kind # "Ok" /\ http.result = http.applied[Greatest(FailedAt)].outcome)
       /\ http.result.kind = "Ok" <=> FailedAt = {}
       /\ FailedAt = {} => http.result = http.applied[Len(http.applied)].outcome

\* every attempt after the first, failed one succeeded, and the call returned
\* the first one's error
C26_Witness ==
  /\ ListReturned
  /\ Len(http.targets) = MaxTargets
  /\ FailedAt = {1}
  /\ http.result.kind = "HttpError"

\* two attempts failed in different ways and the later error was returned
C26_WitnessTwoErrors ==
  /\ ListReturned
  /\ Len(http.targets) >= 2
  /\ http.applied[1].outcome.kind = "HttpError"
  /\ http.applied[2].outcome.kind = "SerializationError"
  /\ http.result.kind = "SerializationError"

(* -------------------------------- C29 ----------------------------------- *)
\* C29: revoke_invitation and delete_invitations_by_group return Ok(()) when
\* the server answers with a success status, also when the body is empty.
C29_DeleteOkOnSuccess ==
  (/\ http.op \in {"revoke_invitation", "delete_invitations_by_group"}
   /\ http.pc = "Returned"
   /\ http.reply.sent /\ http.reply.success) =>
    http.result = HttpOk(UnitValue)

\* what the code does: Ok(()) for the body null and for no other body of the
\* model
C29_DeleteOkOnlyForNull ==
  (/\ http.op \in {"revoke_invitation", "delete_invitations_by_group"}
   /\ http.pc = "Returned"
   /\ http.reply.sent /\ http.reply.success) =>
    /\ http.reply.text = <<"n", "u", "l", "l">> => http.result = HttpOk(UnitValue)
    /\ http.reply.text # <<"n", "u", "l", "l">> => http.result.kind = "SerializationError"

(* -------------------------------- C30 ----------------------------------- *)
\* the user a target stands for: the value as phone for a Phone target, as
\* email for every other type
UserOfTarget(target) ==
  [email |-> IF target.target_type = "Phone" THEN None ELSE Some(target.value),
   phone |-> IF target.target_type = "Phone" THEN Some(target.value) ELSE None,
   name |-> None]

\* C30: a legacy target becomes a user with only the email set for an Email,
\* Share or Internal target and only the phone set for a Phone target, the
\* same in the single form and in the list form; the converted user passes
\* the email-or-phone validation and is the user of the request.
C30_TargetConversion ==
  /\ \A target \in Targets :
       /\ TargetToUser(target) = UserOfTarget(target)
       /\ TargetToUserInList(target) = TargetToUser(target)
       /\ UserValid(TargetToUser(target))
  /\ (http.form = "Target" /\ http.pc # "Idle") =>
       /\ http.user = UserOfTarget(http.targets[1])
       /\ http.result.kind # "InvalidRequest"
       /\ \A k \in 1..Len(http.sent) :
            http.sent[k].body = AcceptBody(http.invitation_ids, UserOfTarget(http.targets[1]))
  /\ http.form = "Targets" =>
       /\ \A k \in 1..Len(http.applied) :
            /\ http.applied[k].user = UserOfTarget(http.targets[k])
            /\ http.applied[k].outcome.kind # "InvalidRequest"
       /\ \A k \in 1..Len(http.sent) :
            Get(http.sent[k].body, K_user) = AcceptUserJson(UserOfTarget(http.targets[k]))
       /\ http.pc = "Returned" /\ http.targets # <<>> => http.result.kind # "InvalidRequest"

\* a request went out for an Internal target of a list, as an email
C30_Witness ==
  /\ http.form = "Targets"
  /\ Len(http.sent) >= 1
  /\ http.targets[Len(http.sent)].target_type = "Internal"
  /\ HasKey(Get(http.sent[Len(http.sent)].body, K_user), K_email)

\* a request went out for a single Share target
C30_WitnessSingle ==
  /\ http.form = "Target" /\ Len(http.sent) = 1
  /\ http.targets[1].target_type = "Share"
  /\ http.user.email.some /\ ~http.user.phone.some

(* -------------------------------- C25 ----------------------------------- *)
\* C25: a generate_jwt call ends with a token, with InvalidApiKey or with
\* CryptoError and nothing else; CryptoError does not occur: every key of
\* three segments with the prefix VRTX and an identifier that decodes to 16
\* bytes yields a token, whatever its third segment, and every other key
\* yields InvalidApiKey.
C25_OnlyInvalidApiKey ==
  jwt.called =>
    /\ jwt.result.kind \in {"Ok", "InvalidApiKey", "CryptoError"}
    /\ jwt.result.kind # "CryptoError"
    /\ (/\ Len(KeySegments) = 3
        /\ KeySegments[1] = VRTX
        /\ B64UrlDecodeOk(KeySegments[2])
        /\ Len(KeyIdBytes) = UuidLen) =>
         (jwt.result.kind = "Ok" /\ jwt.result.token # <<>>)
    /\ jwt.result.kind = "InvalidApiKey" <=> MalformedKey
    /\ jwt.result.kind # "Ok" => jwt.result.token = <<>>

\* a token was made with the key whose third segment is empty
C25_Witness ==
  /\ jwt.called /\ jwt.result.kind = "Ok"
  /\ Len(KeySegments) = 3 /\ KeySegments[3] = <<>>

\* a key of four segments was refused as InvalidApiKey
C25_WitnessRefused ==
  /\ jwt.called /\ jwt.result.kind = "InvalidApiKey"
  /\ Len(KeySegments) = 4

(* -------------------------------- C27 ----------------------------------- *)
\* the signature texts of the model as bytes
SignatureBytes == {AsBytes(signature) : signature \in Signatures}

\* constant_time_eq is equality of byte sequences, over the signatures of the
\* model
ConstantTimeEqIsEquality ==
  \A a, b \in SignatureBytes : constant_time_eq(a, b) <=> (a = b)

\* C27: constant_time_eq is true exactly for the same byte sequence, so
\* verify_signature is false for every signature that is not the 64 characters
\* of the lowercase hexadecimal digest: for the digest in upper case, and for
\* a text of any other length.
C27_ExactBytesOnly ==
  /\ ConstantTimeEqIsEquality
  /\ wh.checks > 0 =>
       LET expected == hex_encode(HmacSha256(AsBytes(secret), wh.payload)) IN
       /\ Len(expected) = 2 * DigestLen
       /\ wh.verified <=> wh.signature = expected
       /\ Len(wh.signature) # 2 * DigestLen => ~wh.verified
       /\ (wh.signature = UpperHex(expected) /\ UpperHex(expected) # expected) => ~wh.verified

\* verify_signature returned false for the sample's digest in upper case
C27_Witness ==
  /\ wh.op = "verify_signature" /\ wh.pc = "Returned" /\ ~wh.verified
  /\ wh.payload = SampleWebhook /\ secret = WhsecTest
  /\ wh.signature = UpperSignature
  /\ UpperSignature # SignatureOf[secret, wh.payload]

\* construct_event rejected the sample's digest with one character more
C27_WitnessLonger ==
  /\ wh.op = "construct_event" /\ wh.pc = "Rejected" /\ ~wh.verified
  /\ wh.payload = SampleWebhook /\ secret = WhsecTest
  /\ wh.signature = LongSignature

(* -------------------------------- C28 ----------------------------------- *)
\* the payloads of the model that deserialize as either struct
BothShaped ==
  {payload \in Payloads :
     /\ PrintableBytes(payload)
     /\ ParseJson(FromBytes(payload)).ok
     /\ MatchesStruct(ParseJson(FromBytes(payload)).v, WebhookFields)
     /\ MatchesStruct(ParseJson(FromBytes(payload)).v, AnalyticsFields)}

\* C28: a payload with a valid signature that has the fields of both event
\* structs is parsed, as the Webhook variant and not as the Analytics one, and
\* is no error: the first variant declared is tried first, and the fields of
\* the other struct are unknown fields, which are ignored.
C28_BothShapesIsWebhook ==
  /\ BothShapes \in BothShaped
  /\ (/\ wh.op = "construct_event" /\ wh.pc \in {"Parsed", "Rejected"}
      /\ SignatureValid /\ wh.payload \in BothShaped) =>
       /\ wh.pc = "Parsed"
       /\ wh.result = [kind |-> "Ok", variant |-> "Webhook"]
       /\ is_webhook_event(wh.result) /\ ~is_analytics_event(wh.result)

\* the payload of both shapes, correctly signed, was parsed as a webhook event
C28_Witness ==
  /\ wh.op = "construct_event" /\ wh.pc = "Parsed"
  /\ wh.payload \in BothShaped /\ SignatureValid
  /\ wh.result.variant = "Webhook"

====
